---------------------------- MODULE Spec2Model ----------------------------
(***************************************************************************)
(* A model of the Spec-Logic ETL pipeline (backend/etl): the extractor,    *)
(* the normalizer, the compatibility tagger, the schema mapper, the        *)
(* Algolia loader and the orchestrator that sequences them.                *)
(*                                                                         *)
(* Python values are tagged tuples:                                        *)
(*   <<"none">>  <<"nan">>  <<"inf">>  <<"ninf">>     None and the         *)
(*                                                   non-finite floats     *)
(*   <<"int", n>>  <<"float", m>>  <<"bool", b>>  <<"str", s>>             *)
(*   <<"raise", e>>   an exception raised in place of a value              *)
(*   <<"list", seq>>  <<"dict", f>>                                        *)
(* A finite float is held in thousandths: <<"float", 4500>> is 4.5.        *)
(* A dict is a function from its keys to values; a DataFrame is a record   *)
(* [cols, rows] whose rows are functions over the columns.                 *)
(***************************************************************************)
EXTENDS Integers, Sequences, FiniteSets, TLC

VARIABLES
    sources,    \* the CSV files under data/raw, per component type
    env,        \* the environment: whether the Algolia credentials are set
    pc,         \* where the run (or the direct loader call) stands
    args,       \* the arguments of ETLPipeline.run
    stats,      \* ETLPipeline.stats (PipelineStats)
    raw_data,   \* what _extract returned, in dict order
    processed,  \* what _transform returned (all_records)
    snapshots,  \* the per-type <type>_processed.json files written
    loader,     \* ETLPipeline._loader is not None
    calls,      \* every call made on the Upload service client, in order
    up,         \* the locals of upload_records / _upload_batch_with_retry
    outcome,    \* what run() delivered: the summary logged, the return, the raise
    step_log,   \* the steps of Extract and Transform a run has begun, in order
    given,      \* a function of the transformers called on its own: its arguments
    answer      \* what that call returned

vars == <<sources, env, pc, args, stats, raw_data, processed, snapshots,
          loader, calls, up, outcome, step_log, given, answer>>

-----------------------------------------------------------------------------
(* Bounds of the model.                                                    *)

\* Longest record list handed directly to upload_records.
MaxRecords == 5
\* Most rows of one CSV file.
MaxRows == 2

\* How far below 0 and above a table's last bound the integers handed to
\* the category methods go
Margin == 3

\* Largest TDP handed to _get_tdp_category on its own.
MaxTdp == 250

\* AlgoliaLoader.BATCH_SIZE, scaled down from 1000 as the loader's own
\* batching test does (loader.BATCH_SIZE = 2).
BATCH_SIZE == 2
\* AlgoliaLoader.MAX_RETRIES
MAX_RETRIES == 3

-----------------------------------------------------------------------------
(* Values.                                                                 *)

None == <<"none">>
NaN == <<"nan">>
PosInf == <<"inf">>
NegInf == <<"ninf">>
Int_(n) == <<"int", n>>
Float(m) == <<"float", m>>
Raise(e) == <<"raise", e>>
Bool(b) == <<"bool", b>>
Str(s) == <<"str", s>>
List(q) == <<"list", q>>
Dict(f) == <<"dict", f>>

Kind(v) == v[1]

\* isinstance(value, float) and (math.isnan(value) or math.isinf(value))
IsNonFinite(v) == Kind(v) \in {"nan", "inf", "ninf"}

\* range(0, n, step): 0, step, 2 * step, ... below n
Range(n, step) == {k * step : k \in 0..((n - 1) \div step)}

\* What the slices would be were the bound one short: records[i:i + size - 1]
Slice_OffByOne(records, i, size) ==
    SubSeq(records, i + 1,
           IF i + size - 1 < Len(records) THEN i + size - 1 ELSE Len(records))

\* records[i:i + size], for a 0-based i
Slice(records, i, size) ==
    SubSeq(records, i + 1,
           IF i + size < Len(records) THEN i + size ELSE Len(records))

-----------------------------------------------------------------------------
(* Python strings, character by character.                                 *)

Chr(s, i) == SubSeq(s, i, i)

\* The lower-case letter of each upper-case one, and the reverse; the
\* value of each digit
ToLower ==
    LET upper == "ABCDEFGHIJKLMNOPQRSTUVWXYZ"
        lower == "abcdefghijklmnopqrstuvwxyz"
    IN [c \in {Chr(upper, i) : i \in 1..26} |->
            Chr(lower, CHOOSE i \in 1..26 : Chr(upper, i) = c)]
ToUpper ==
    [c \in {ToLower[u] : u \in DOMAIN ToLower} |->
        CHOOSE u \in DOMAIN ToLower : ToLower[u] = c]
DigitValue ==
    LET digits == "0123456789" IN
    [c \in {Chr(digits, i) : i \in 1..10} |->
        (CHOOSE i \in 1..10 : Chr(digits, i) = c) - 1]

\* \d
IsDigit(c) == c \in DOMAIN DigitValue
\* \s
IsSpace(c) == c \in {" ", "\t"}
\* \w
IsWord(c) ==
    \/ c \in DOMAIN ToLower
    \/ c \in DOMAIN ToUpper
    \/ IsDigit(c)
    \/ c = "_"

\* str.lower
RECURSIVE Lower(_)
Lower(s) ==
    IF s = "" THEN ""
    ELSE (IF Chr(s, 1) \in DOMAIN ToLower THEN ToLower[Chr(s, 1)] ELSE Chr(s, 1))
         \o Lower(SubSeq(s, 2, Len(s)))

\* str.upper
RECURSIVE Upper(_)
Upper(s) ==
    IF s = "" THEN ""
    ELSE (IF Chr(s, 1) \in DOMAIN ToUpper THEN ToUpper[Chr(s, 1)] ELSE Chr(s, 1))
         \o Upper(SubSeq(s, 2, Len(s)))

\* str.strip
RECURSIVE Strip(_)
Strip(s) ==
    IF s = "" THEN ""
    ELSE IF IsSpace(Chr(s, 1)) THEN Strip(SubSeq(s, 2, Len(s)))
    ELSE IF IsSpace(Chr(s, Len(s))) THEN Strip(SubSeq(s, 1, Len(s) - 1))
    ELSE s

\* sub in s
Contains(s, sub) ==
    \E i \in 1..(Len(s) - Len(sub) + 1) : SubSeq(s, i, i + Len(sub) - 1) = sub

\* str.replace(old, new) for a one-character old; new may be empty
RECURSIVE ReplaceChar(_, _, _)
ReplaceChar(s, old, new) ==
    IF s = "" THEN ""
    ELSE (IF Chr(s, 1) = old THEN new ELSE Chr(s, 1))
         \o ReplaceChar(SubSeq(s, 2, Len(s)), old, new)

\* str(n) for an integer n >= 0
RECURSIVE NatStr(_)
NatStr(n) ==
    IF n < 10 THEN Chr("0123456789", n + 1)
    ELSE NatStr(n \div 10) \o Chr("0123456789", (n % 10) + 1)

\* int(digits) for a string of digits
RECURSIVE DigitsInt(_)
DigitsInt(d) ==
    IF d = "" THEN 0
    ELSE 10 * DigitsInt(SubSeq(d, 1, Len(d) - 1)) + DigitValue[Chr(d, Len(d))]

\* Where the first run of digits of s starts (0: none) and the run itself:
\* re.search(r"(\d+)", s)
FirstDigitAt(s) ==
    IF \E i \in 1..Len(s) : IsDigit(Chr(s, i))
    THEN CHOOSE i \in 1..Len(s) :
            IsDigit(Chr(s, i)) /\ \A j \in 1..(i - 1) : ~IsDigit(Chr(s, j))
    ELSE 0
DigitRunFrom(s, i) ==
    LET ends == {j \in i..Len(s) : \A k \in i..j : IsDigit(Chr(s, k))} IN
    SubSeq(s, i, CHOOSE j \in ends : \A k \in ends : k <= j)

\* The digits after the point in repr of a float with m thousandths
FracStr(m) ==
    IF m % 100 = 0 THEN NatStr(m \div 100)
    ELSE IF m % 10 = 0
    THEN NatStr(m \div 100) \o NatStr((m \div 10) % 10)
    ELSE NatStr(m \div 100) \o NatStr((m \div 10) % 10) \o NatStr(m % 10)

\* str(value)
PyStr(v) ==
    CASE Kind(v) = "str" -> v[2]
      [] Kind(v) = "int" -> IF v[2] < 0 THEN "-" \o NatStr(0 - v[2]) ELSE NatStr(v[2])
      [] Kind(v) = "float" -> NatStr(v[2] \div 1000) \o "." \o FracStr(v[2] % 1000)
      [] Kind(v) = "bool" -> IF v[2] THEN "True" ELSE "False"
      [] Kind(v) = "nan" -> "nan"
      [] Kind(v) = "inf" -> "inf"
      [] Kind(v) = "ninf" -> "-inf"
      [] Kind(v) = "none" -> "None"
      [] OTHER -> "[...]"

\* pd.isna(value) or value is None
IsNA(v) == Kind(v) \in {"nan", "none"}

-----------------------------------------------------------------------------
(* DataNormalizer: the scalar normalizers.                                 *)

\* One alternative of a pattern, searched in the lower-cased text (the
\* patterns are all (?i)): ^lit$, or a then any run of cls characters then b
\* (a plain literal is a with nothing after it).
Exact(lit) == <<"exact", lit, {}, "">>
Gap(a, cls, b) == <<"gap", a, cls, b>>
WS == {" ", "\t"}
DashWS == {"-", " ", "\t"}

\* re.search(alternative, text), t being the text in lower case
AltMatches(alt, t) ==
    LET a == alt[2]
        b == alt[4]
    IN
    IF alt[1] = "exact" THEN t = a
    ELSE \E i \in 1..Len(t), k \in 0..Len(t) :
            /\ i + Len(a) + k + Len(b) - 1 <= Len(t)
            /\ SubSeq(t, i, i + Len(a) - 1) = a
            /\ \A j \in (i + Len(a))..(i + Len(a) + k - 1) : Chr(t, j) \in alt[3]
            /\ SubSeq(t, i + Len(a) + k, i + Len(a) + k + Len(b) - 1) = b

\* DataNormalizer.SOCKET_MAPPINGS, in dict order
SOCKET_MAPPINGS ==
    << <<{Exact("am5"), Gap("socket", WS, "am5"), Gap("amd", WS, "am5")}, "AM5">>,
       <<{Exact("am4"), Gap("socket", WS, "am4"), Gap("amd", WS, "am4")}, "AM4">>,
       <<{Exact("str5"), Gap("socket", WS, "str5"), Gap("strx4", {}, "")}, "sTRX4">>,
       <<{Exact("sp5"), Gap("socket", WS, "sp5")}, "SP5">>,
       <<{Gap("lga", WS, "1700"), Gap("intel", WS, "1700")}, "LGA1700">>,
       <<{Gap("lga", WS, "1851"), Gap("intel", WS, "1851")}, "LGA1851">>,
       <<{Gap("lga", WS, "1200"), Gap("intel", WS, "1200")}, "LGA1200">>,
       <<{Gap("lga", WS, "1151")}, "LGA1151">>,
       <<{Gap("lga", WS, "2066")}, "LGA2066">>,
       <<{Gap("lga", WS, "4677")}, "LGA4677">> >>

\* DataNormalizer.MEMORY_TYPE_MAPPINGS, in dict order (the optional tail
\* [-\s]*\d* of the DDR patterns matches the empty string)
MEMORY_TYPE_MAPPINGS ==
    << <<{Gap("ddr5", {}, "")}, "DDR5">>,
       <<{Gap("ddr4", {}, "")}, "DDR4">>,
       <<{Gap("ddr3", {}, "")}, "DDR3">>,
       <<{Gap("gddr6x", {}, "")}, "GDDR6X">>,
       <<{Gap("gddr6", {}, "")}, "GDDR6">>,
       <<{Gap("gddr5x", {}, "")}, "GDDR5X">>,
       <<{Gap("gddr5", {}, "")}, "GDDR5">>,
       <<{Gap("hbm3", {}, "")}, "HBM3">>,
       <<{Gap("hbm2e", {}, "")}, "HBM2e">>,
       <<{Gap("hbm2", {}, "")}, "HBM2">> >>

\* DataNormalizer.FORM_FACTOR_MAPPINGS, in dict order
FORM_FACTOR_MAPPINGS ==
    << <<{Exact("atx"), Gap("full", WS, "atx")}, "ATX">>,
       <<{Gap("micro", DashWS, "atx"), Gap("matx", {}, ""), Gap("m-atx", {}, "")}, "Micro-ATX">>,
       <<{Gap("mini", DashWS, "itx"), Gap("itx", {}, "")}, "Mini-ITX">>,
       <<{Gap("e", DashWS, "atx"), Gap("extended", WS, "atx")}, "E-ATX">>,
       <<{Gap("sfx", DashWS, "l")}, "SFX-L">>,
       <<{Exact("sfx")}, "SFX">> >>

\* for pattern, normalized in table.items(): if re.search(pattern, text):
\* return normalized -- the first entry that matches, "" when none does
FirstMatch(table, text) ==
    LET t == Lower(text)
        hits == {n \in 1..Len(table) : \E alt \in table[n][1] : AltMatches(alt, t)}
    IN
    IF hits = {} THEN ""
    ELSE table[CHOOSE n \in hits : \A m \in hits : n <= m][2]

\* DataNormalizer.normalize_socket
normalize_socket(value) ==
    IF IsNA(value) THEN None
    ELSE LET value_str == Strip(PyStr(value))
             hit == FirstMatch(SOCKET_MAPPINGS, value_str)
         IN IF hit # "" THEN Str(hit)
            ELSE Str(ReplaceChar(Upper(value_str), " ", ""))

\* DataNormalizer.normalize_memory_type
normalize_memory_type(value) ==
    IF IsNA(value) THEN None
    ELSE LET value_str == Strip(PyStr(value))
             hit == FirstMatch(MEMORY_TYPE_MAPPINGS, value_str)
         IN IF hit # "" THEN Str(hit) ELSE Str(Upper(value_str))

\* DataNormalizer.normalize_form_factor
normalize_form_factor(value) ==
    IF IsNA(value) THEN None
    ELSE LET value_str == Strip(PyStr(value))
             hit == FirstMatch(FORM_FACTOR_MAPPINGS, value_str)
         IN IF hit # "" THEN Str(hit) ELSE Str(value_str)

\* isinstance(value, (int, float)): bool is an int in Python
IsNumber(v) == Kind(v) \in {"int", "float", "bool", "nan", "inf", "ninf"}

\* int(value) of a number: truncation, OverflowError on an infinity,
\* ValueError on NaN
IntOf(v) ==
    CASE Kind(v) = "int" -> v
      [] Kind(v) = "float" -> Int_(v[2] \div 1000)
      [] Kind(v) = "bool" -> Int_(IF v[2] THEN 1 ELSE 0)
      [] Kind(v) = "nan" -> Raise("ValueError")
      [] OTHER -> Raise("OverflowError")

\* float(value) of a number
FloatOf(v) ==
    CASE Kind(v) = "int" -> Float(v[2] * 1000)
      [] Kind(v) = "bool" -> Float(IF v[2] THEN 1000 ELSE 0)
      [] OTHER -> v

\* The thousandths of the decimal number (\d+(?:\.\d+)?) that starts at
\* place i of s, and the place after it.
DecimalAt(s, i) ==
    LET d1 == DigitRunFrom(s, i)
        j == i + Len(d1)
        frac == j + 1 <= Len(s) /\ Chr(s, j) = "." /\ IsDigit(Chr(s, j + 1))
        d2 == IF frac THEN DigitRunFrom(s, j + 1) ELSE ""
    IN [milli |-> DigitsInt(d1) * 1000 + DigitsInt(SubSeq(d2 \o "000", 1, 3)),
        next |-> IF frac THEN j + 1 + Len(d2) ELSE j]

\* DataNormalizer.normalize_tdp
normalize_tdp(value) ==
    IF IsNA(value) THEN None
    ELSE IF IsNumber(value) THEN IntOf(value)
    ELSE LET value_str == Strip(PyStr(value))
             at == FirstDigitAt(value_str)
         IN IF at > 0 THEN Int_(DecimalAt(value_str, at).milli \div 1000)
            ELSE None

\* re.sub(r"[^\d.]", "", s)
RECURSIVE KeepDigitsAndDots(_)
KeepDigitsAndDots(s) ==
    IF s = "" THEN ""
    ELSE (IF IsDigit(Chr(s, 1)) \/ Chr(s, 1) = "." THEN Chr(s, 1) ELSE "")
         \o KeepDigitsAndDots(SubSeq(s, 2, Len(s)))

\* float(s) for a string of digits and dots: ValueError unless it has a
\* digit and at most one dot
FloatOfDigits(s) ==
    LET dots == {i \in 1..Len(s) : Chr(s, i) = "."} IN
    IF Cardinality(dots) > 1 \/ Len(s) = Cardinality(dots)
    THEN Raise("ValueError")
    ELSE IF dots = {} THEN Float(DigitsInt(s) * 1000)
    ELSE LET d == CHOOSE i \in dots : TRUE IN
         Float(DigitsInt(SubSeq(s, 1, d - 1)) * 1000
               + DigitsInt(SubSeq(SubSeq(s, d + 1, Len(s)) \o "000", 1, 3)))

\* DataNormalizer.normalize_price
normalize_price(value) ==
    IF IsNA(value) THEN None
    ELSE IF IsNumber(value) THEN FloatOf(value)
    ELSE LET parsed == FloatOfDigits(KeepDigitsAndDots(Strip(PyStr(value)))) IN
         IF Kind(parsed) = "raise" THEN None ELSE parsed

\* value > 100 for a number
Above100(v) ==
    CASE Kind(v) = "int" -> v[2] > 100
      [] Kind(v) = "float" -> v[2] > 100000
      [] Kind(v) = "inf" -> TRUE
      [] OTHER -> FALSE

\* value / 1000 for a number
Div1000(v) ==
    CASE Kind(v) = "int" -> Float(v[2])
      [] Kind(v) = "float" -> Float(v[2] \div 1000)
      [] OTHER -> v

\* DataNormalizer.normalize_clock_speed
normalize_clock_speed(value) ==
    IF IsNA(value) THEN None
    ELSE IF IsNumber(value)
    THEN IF Above100(value) THEN Div1000(value) ELSE FloatOf(value)
    ELSE LET value_str == Lower(Strip(PyStr(value)))
             at == FirstDigitAt(value_str)
         IN IF at = 0 THEN None
            ELSE LET num == DecimalAt(value_str, at)
                     rest == SubSeq(value_str, num.next, Len(value_str))
                     unit == Strip(rest)
                     mhz == Len(unit) >= 3 /\ SubSeq(unit, 1, 3) = "mhz"
                 IN IF mhz THEN Float(num.milli \div 1000) ELSE Float(num.milli)

\* DataNormalizer.TIER_THRESHOLDS: per component type the tiers in dict
\* order, each with max_price and max_tdp (-1: float("inf"), also the
\* default of limits.get for an absent key)
TIER_THRESHOLDS ==
    [CPU |-> << <<"budget", 150, 65>>, <<"mid-range", 350, 105>>,
                <<"high-end", 550, 170>>, <<"enthusiast", -1, -1>> >>,
     GPU |-> << <<"budget", 250, 150>>, <<"mid-range", 500, 250>>,
                <<"high-end", 900, 350>>, <<"enthusiast", -1, -1>> >>,
     Motherboard |-> << <<"budget", 150, -1>>, <<"mid-range", 300, -1>>,
                        <<"high-end", 500, -1>>, <<"enthusiast", -1, -1>> >>]

\* v <= limit for a number v and a limit in whole units (-1: infinity);
\* every comparison with NaN is false
NumLE(v, limit) ==
    CASE Kind(v) = "nan" -> FALSE
      [] Kind(v) = "ninf" -> TRUE
      [] Kind(v) = "inf" -> limit = -1
      [] Kind(v) = "int" -> limit = -1 \/ v[2] <= limit
      [] Kind(v) = "float" -> limit = -1 \/ v[2] <= limit * 1000
      [] Kind(v) = "bool" -> TRUE
      [] OTHER -> FALSE

\* DataNormalizer.derive_performance_tier
derive_performance_tier(component_type, price, tdp) ==
    IF ~(Kind(component_type) = "str" /\ component_type[2] \in DOMAIN TIER_THRESHOLDS)
    THEN "mid-range"
    ELSE LET thresholds == TIER_THRESHOLDS[component_type[2]]
             ok == {n \in 1..Len(thresholds) :
                        /\ (price = None \/ NumLE(price, thresholds[n][2]))
                        /\ (tdp = None \/ NumLE(tdp, thresholds[n][3]))}
         IN IF ok = {} THEN "enthusiast"
            ELSE thresholds[CHOOSE n \in ok : \A m \in ok : n <= m][1]

\* re.sub(r"[^\w\s-]", "", text)
RECURSIVE KeepSlugChars(_)
KeepSlugChars(s) ==
    IF s = "" THEN ""
    ELSE (IF IsWord(Chr(s, 1)) \/ IsSpace(Chr(s, 1)) \/ Chr(s, 1) = "-"
          THEN Chr(s, 1) ELSE "")
         \o KeepSlugChars(SubSeq(s, 2, Len(s)))

\* re.sub(r"[-\s]+", "-", text)
RECURSIVE CollapseDashes(_)
CollapseDashes(s) ==
    IF s = "" THEN ""
    ELSE IF Chr(s, 1) \in DashWS
    THEN IF Len(s) >= 2 /\ Chr(s, 2) \in DashWS
         THEN CollapseDashes(SubSeq(s, 2, Len(s)))
         ELSE "-" \o CollapseDashes(SubSeq(s, 2, Len(s)))
    ELSE Chr(s, 1) \o CollapseDashes(SubSeq(s, 2, Len(s)))

\* slugify, the helper of generate_object_id
slugify(text) == CollapseDashes(KeepSlugChars(Strip(Lower(PyStr(text)))))

\* DataNormalizer.generate_object_id
generate_object_id(component_type, brand, model) ==
    slugify(component_type) \o "-" \o slugify(brand) \o "-" \o slugify(model)

-----------------------------------------------------------------------------
(* DataFrames.                                                             *)

DF(cols, rows) == [exc |-> "", cols |-> cols, rows |-> rows]
\* An exception raised where a DataFrame was to be returned.
Failed(e) == [exc |-> e, cols |-> <<>>, rows |-> <<>>]
\* pd.DataFrame()
EmptyDF == DF(<<>>, <<>>)

\* df.columns, as a set
Columns(df) == {df.cols[i] : i \in 1..Len(df.cols)}

\* df.empty
IsEmpty(df) == df.cols = <<>> \/ df.rows = <<>>

\* row.get(key, default); bool(value); a or b
Get(row, key, default) == IF key \in DOMAIN row THEN row[key] ELSE default
Truthy(v) ==
    CASE Kind(v) = "none" -> FALSE
      [] Kind(v) = "int" -> v[2] # 0
      [] Kind(v) = "float" -> v[2] # 0
      [] Kind(v) = "bool" -> v[2]
      [] Kind(v) = "str" -> v[2] # ""
      [] Kind(v) = "list" -> v[2] # <<>>
      [] OTHER -> TRUE
Or(a, b) == IF Truthy(a) THEN a ELSE b

\* The values pandas keeps for a column computed by apply: numbers mixed
\* with None or floats become floats (None becomes NaN); a column that
\* holds anything else keeps its values.
InferColumn(vals) ==
    LET kinds == {Kind(vals[r]) : r \in 1..Len(vals)} IN
    IF /\ kinds \subseteq {"int", "float", "nan", "inf", "ninf", "none"}
       /\ kinds # {"none"}
       /\ kinds # {"int"}
    THEN [r \in 1..Len(vals) |->
            IF Kind(vals[r]) = "none" THEN NaN ELSE FloatOf(vals[r])]
    ELSE vals

\* df[col] = vals: in place for a column that exists, else appended
SetColumn(df, col, vals) ==
    LET cols == IF col \in Columns(df) THEN df.cols ELSE Append(df.cols, col) IN
    DF(cols, [r \in 1..Len(df.rows) |->
                [c \in Columns(df) \cup {col} |->
                    IF c = col THEN vals[r] ELSE df.rows[r][c]]])

\* The first exception among vals, "" when there is none
FirstRaise(vals) ==
    LET bad == {r \in 1..Len(vals) : Kind(vals[r]) = "raise"} IN
    IF bad = {} THEN "" ELSE vals[CHOOSE r \in bad : \A q \in bad : r <= q][2]

\* The normalizer normalize_dataframe applies to a column of kind fn
NormalizeBy(fn, v) ==
    CASE fn = "socket" -> normalize_socket(v)
      [] fn = "memory_type" -> normalize_memory_type(v)
      [] fn = "form_factor" -> normalize_form_factor(v)
      [] fn = "tdp" -> normalize_tdp(v)
      [] fn = "price" -> normalize_price(v)
      [] OTHER -> normalize_clock_speed(v)

\* if col in df.columns: df[col] = df[src].apply(normalizer)
ApplyColumn(df, col, src, fn) ==
    IF df.exc # "" \/ col \notin Columns(df) THEN df
    ELSE IF src \notin Columns(df) THEN Failed("KeyError")
    ELSE LET vals == [r \in 1..Len(df.rows) |-> NormalizeBy(fn, df.rows[r][src])] IN
         IF FirstRaise(vals) # "" THEN Failed(FirstRaise(vals))
         ELSE SetColumn(df, col, InferColumn(vals))

\* normalize_dataframe: "Generate object IDs if not present"
AddObjectIDs(df) ==
    IF df.exc # "" THEN df
    ELSE IF /\ "objectID" \notin Columns(df)
            /\ "component_type" \in Columns(df)
            /\ "brand" \in Columns(df)
            /\ ("model" \in Columns(df) \/ "name" \in Columns(df))
    THEN SetColumn(df, "objectID",
            [r \in 1..Len(df.rows) |->
                LET row == df.rows[r] IN
                Str(generate_object_id(
                        row["component_type"],
                        Get(row, "brand", Str("unknown")),
                        Get(row, "model", Get(row, "name", Str("unknown")))))])
    ELSE df

\* normalize_dataframe: "Ensure model column exists"
AddModel(df) ==
    IF df.exc # "" THEN df
    ELSE IF "model" \notin Columns(df) /\ "name" \in Columns(df)
    THEN SetColumn(df, "model", [r \in 1..Len(df.rows) |-> df.rows[r]["name"]])
    ELSE df

\* normalize_dataframe: "Derive performance tier if not present"
AddPerformanceTier(df) ==
    IF df.exc # "" THEN df
    ELSE IF "performance_tier" \notin Columns(df)
    THEN SetColumn(df, "performance_tier",
            [r \in 1..Len(df.rows) |->
                LET row == df.rows[r] IN
                Str(derive_performance_tier(
                        Get(row, "component_type", Str("")),
                        Or(Get(row, "price_usd", None), Get(row, "price", None)),
                        Or(Get(row, "tdp_watts", None), Get(row, "tdp", None))))])
    ELSE df

\* The columns normalize_dataframe normalizes, in its order, each with
\* the kind of its normalizer
NormalizedColumns ==
    << <<"socket", "socket">>, <<"memory_type", "memory_type">>,
       <<"form_factor", "form_factor">>,
       <<"tdp", "tdp">>, <<"tdp_watts", "tdp">>, <<"max_tdp_watts", "tdp">>,
       <<"price", "price">>, <<"price_usd", "price">>, <<"msrp", "price">>,
       <<"base_clock", "clock">>, <<"boost_clock", "clock">>,
       <<"base_clock_ghz", "clock">>, <<"boost_clock_ghz", "clock">> >>

\* The normalizations of normalize_dataframe for the columns steps, in order
RECURSIVE ApplyColumns(_, _)
ApplyColumns(df, steps) ==
    IF steps = <<>> THEN df
    ELSE LET step == steps[Len(steps)] IN
         ApplyColumn(ApplyColumns(df, SubSeq(steps, 1, Len(steps) - 1)),
                     step[1],
                     \* the TDP loop reads df["tdp_watts"] for col "tdp"
                     IF step[1] = "tdp" THEN "tdp_watts" ELSE step[1],
                     step[2])

\* DataNormalizer.normalize_dataframe
normalize_dataframe(df) ==
    AddPerformanceTier(AddModel(AddObjectIDs(ApplyColumns(df, NormalizedColumns))))

-----------------------------------------------------------------------------
(* CompatibilityTagger.                                                    *)

\* The tags one rule appends, or the exception it raises.
Tags(q) == [exc |-> "", tags |-> q]
Throws(e) == [exc |-> e, tags |-> <<>>]
NoTags == Tags(<<>>)

\* The rules of a generator in order: the tags appended until one raises.
RECURSIVE JoinRules(_)
JoinRules(rules) ==
    IF rules = <<>> THEN NoTags
    ELSE IF Head(rules).exc # "" THEN Head(rules)
    ELSE LET rest == JoinRules(Tail(rules)) IN
         IF rest.exc # "" THEN rest ELSE Tags(Head(rules).tags \o rest.tags)

\* list(tags): no tag removed
Dedup_KeepsAll(q) == q

\* list(set(tags)): every tag once
RECURSIVE Dedup(_)
Dedup(q) ==
    IF q = <<>> THEN <<>>
    ELSE LET front == Dedup(SubSeq(q, 1, Len(q) - 1)) IN
         IF \E i \in 1..Len(front) : front[i] = q[Len(q)] THEN front
         ELSE Append(front, q[Len(q)])

\* v >= n and v <= n for a number v and an integer n (-1 as an upper
\* limit: float("inf")); every comparison with NaN is false
NumGE(v, n) ==
    CASE Kind(v) = "nan" -> FALSE
      [] Kind(v) = "ninf" -> FALSE
      [] Kind(v) = "inf" -> TRUE
      [] Kind(v) = "int" -> v[2] >= n
      [] Kind(v) = "float" -> v[2] >= n * 1000
      [] Kind(v) = "bool" -> (IF v[2] THEN 1 ELSE 0) >= n
      [] OTHER -> FALSE

\* CompatibilityTagger.TDP_CATEGORIES .. PSU_WATTAGE_TIERS, in dict order:
\* <<tag, min_val, max_val>>, -1 for float("inf")
TDP_CATEGORIES ==
    << <<"low-tdp", 0, 65>>, <<"mid-tdp", 66, 125>>, <<"high-tdp", 126, 200>>,
       <<"extreme-tdp", 201, -1>> >>
VRAM_TIERS ==
    << <<"vram-4gb", 0, 4>>, <<"vram-8gb", 5, 8>>, <<"vram-12gb", 9, 12>>,
       <<"vram-16gb", 13, 16>>, <<"vram-24gb", 17, 24>>,
       <<"vram-32gb-plus", 25, -1>> >>
GPU_LENGTH_CATEGORIES ==
    << <<"compact-gpu", 0, 250>>, <<"standard-gpu", 251, 310>>,
       <<"long-gpu", 311, 350>>, <<"extra-long-gpu", 351, -1>> >>
COOLER_HEIGHT_CATEGORIES ==
    << <<"low-profile", 0, 70>>, <<"mid-height", 71, 130>>,
       <<"tower-cooler", 131, 165>>, <<"tall-tower", 166, -1>> >>
CASE_GPU_CLEARANCE ==
    << <<"compact-clearance", 0, 280>>, <<"standard-clearance", 281, 330>>,
       <<"extended-clearance", 331, 380>>, <<"full-clearance", 381, -1>> >>
PSU_WATTAGE_TIERS ==
    << <<"psu-450w", 0, 500>>, <<"psu-550w", 501, 600>>, <<"psu-650w", 601, 700>>,
       <<"psu-750w", 701, 800>>, <<"psu-850w", 801, 900>>,
       <<"psu-1000w", 901, 1100>>, <<"psu-1200w-plus", 1101, -1>> >>

\* The tag of the first range with min_val <= v < max_val, else the
\* fallback
Bucket_UpperExclusive(table, v, fallback) ==
    LET hits == {n \in 1..Len(table) :
                    /\ NumGE(v, table[n][2])
                    /\ table[n][3] = -1 \/ NumLE(v, table[n][3] - 1)} IN
    IF hits = {} THEN fallback
    ELSE table[CHOOSE n \in hits : \A m \in hits : n <= m][1]

\* _get_tdp_category, _get_vram_tier, _get_gpu_length_category and the
\* other category methods, which differ in their table and their fallback
\* tag only: the tag of the first range with min_val <= v <= max_val, else
\* the fallback
Bucket(table, v, fallback) ==
    LET hits == {n \in 1..Len(table) :
                    NumGE(v, table[n][2]) /\ NumLE(v, table[n][3])} IN
    IF hits = {} THEN fallback
    ELSE table[CHOOSE n \in hits : \A m \in hits : n <= m][1]

\* if v: tags.append(v.lower()) -- AttributeError unless v is a string
LowerTag(v) ==
    IF ~Truthy(v) THEN NoTags
    ELSE IF Kind(v) = "str" THEN Tags(<<Lower(v[2])>>)
    ELSE Throws("AttributeError")

\* "Memory type support" of the CPU and motherboard generators: a string
\* is one type, a list is iterated, anything else is not iterable
MemoryTypeTags(v) ==
    IF Kind(v) = "str" THEN LowerTag(v)
    ELSE IF Kind(v) = "list"
    THEN JoinRules([j \in 1..Len(v[2]) |-> LowerTag(v[2][j])])
    ELSE Throws("TypeError")

\* if pcie: tags.append(f"pcie{pcie}".lower().replace(".", ""))
PcieTag(v) ==
    IF ~Truthy(v) THEN NoTags
    ELSE Tags(<<ReplaceChar(Lower("pcie" \o PyStr(v)), ".", "")>>)

\* if v: tags.append(category(v)) -- TypeError when v is no number
BucketTag(v, table, fallback) ==
    IF ~Truthy(v) THEN NoTags
    ELSE IF ~IsNumber(v) THEN Throws("TypeError")
    ELSE Tags(<<Bucket(table, v, fallback)>>)

\* if tier: tags.append(tier)
TierTag(v) == IF Truthy(v) THEN Tags(<<PyStr(v)>>) ELSE NoTags

\* CompatibilityTagger._generate_cpu_tags
_generate_cpu_tags(cpu) ==
    LET cores == Get(cpu, "cores", None)
        raw == JoinRules(<<
            LowerTag(Get(cpu, "socket", None)),
            MemoryTypeTags(Get(cpu, "memory_type", List(<<>>))),
            PcieTag(Get(cpu, "pcie_version", None)),
            BucketTag(Or(Get(cpu, "tdp_watts", None), Get(cpu, "max_tdp_watts", None)),
                      TDP_CATEGORIES, "extreme-tdp"),
            IF Truthy(Get(cpu, "integrated_graphics", None))
                THEN Tags(<<"igpu">>) ELSE Tags(<<"no-igpu">>),
            IF ~Truthy(cores) THEN NoTags
                ELSE IF ~IsNumber(cores) THEN Throws("TypeError")
                ELSE IF NumLE(cores, 4) THEN Tags(<<"quad-core">>)
                ELSE IF NumLE(cores, 8) THEN Tags(<<"octa-core">>)
                ELSE IF NumLE(cores, 16) THEN Tags(<<"high-core-count">>)
                ELSE Tags(<<"extreme-core-count">>),
            TierTag(Get(cpu, "performance_tier", None)) >>)
    IN IF raw.exc # "" THEN raw ELSE Tags(Dedup(raw.tags))

\* "Brand-specific tags" of _generate_gpu_tags
BrandTags(brand_v, model_v) ==
    IF Kind(brand_v) # "str" \/ Kind(model_v) # "str" THEN Throws("AttributeError")
    ELSE LET brand == Lower(brand_v[2])
             model == Lower(model_v[2])
         IN IF Contains(brand, "nvidia") \/ Contains(model, "geforce")
            THEN Tags(<<"nvidia">>
                      \o (IF Contains(model, "rtx") THEN <<"rtx", "ray-tracing">> ELSE <<>>)
                      \o (IF Contains(model, "gtx") THEN <<"gtx">> ELSE <<>>))
            ELSE IF Contains(brand, "amd") \/ Contains(model, "radeon")
            THEN Tags(<<"amd">>
                      \o (IF Contains(model, "rx") THEN <<"rdna">> ELSE <<>>))
            ELSE NoTags

\* CompatibilityTagger._generate_gpu_tags
_generate_gpu_tags(gpu) ==
    LET tdp == Get(gpu, "tdp_watts", None)
        raw == JoinRules(<<
            BucketTag(tdp, TDP_CATEGORIES, "extreme-tdp"),
            IF ~Truthy(tdp) \/ ~IsNumber(tdp) THEN NoTags
                ELSE Tags((IF NumGE(tdp, 300) THEN <<"high-power-gpu">> ELSE <<>>)
                          \o (IF NumGE(tdp, 400) THEN <<"extreme-power-gpu">> ELSE <<>>)),
            BucketTag(Get(gpu, "vram_gb", None), VRAM_TIERS, "vram-32gb-plus"),
            BucketTag(Get(gpu, "length_mm", None), GPU_LENGTH_CATEGORIES, "extra-long-gpu"),
            PcieTag(Get(gpu, "pcie_version", None)),
            LowerTag(Get(gpu, "memory_type", None)),
            BrandTags(Get(gpu, "brand", Str("")), Get(gpu, "model", Str(""))),
            TierTag(Get(gpu, "performance_tier", None)) >>)
    IN IF raw.exc # "" THEN raw ELSE Tags(Dedup(raw.tags))

\* "M.2 slots" and "Memory slots" of _generate_motherboard_tags: the
\* comparison raises TypeError when the value is no number
SlotTags(v, hi, hi_tag, lo, lo_tag, else_tag) ==
    IF ~IsNumber(v) THEN Throws("TypeError")
    ELSE IF NumGE(v, hi) THEN Tags(<<hi_tag>>)
    ELSE IF lo > 0 /\ NumGE(v, lo) THEN Tags(<<lo_tag>>)
    ELSE IF else_tag # "" THEN Tags(<<else_tag>>)
    ELSE NoTags

\* CompatibilityTagger._generate_motherboard_tags
_generate_motherboard_tags(mobo) ==
    LET form_factor == Get(mobo, "form_factor", None)
        raw == JoinRules(<<
            LowerTag(Get(mobo, "socket", None)),
            MemoryTypeTags(Get(mobo, "memory_type", List(<<>>))),
            IF ~Truthy(form_factor) THEN NoTags
                ELSE IF Kind(form_factor) # "str" THEN Throws("AttributeError")
                ELSE Tags(<<ReplaceChar(Lower(form_factor[2]), " ", "-")>>),
            LowerTag(Get(mobo, "chipset", None)),
            IF Truthy(Get(mobo, "wifi", None)) THEN Tags(<<"wifi">>) ELSE NoTags,
            SlotTags(Get(mobo, "m2_slots", Int_(0)), 4, "many-m2", 2, "multi-m2", ""),
            SlotTags(Get(mobo, "memory_slots", Int_(0)), 4, "4-dimm", 0, "", "2-dimm"),
            TierTag(Get(mobo, "performance_tier", None)) >>)
    IN IF raw.exc # "" THEN raw ELSE Tags(Dedup(raw.tags))

\* CompatibilityTagger._generate_ram_tags
_generate_ram_tags(ram) ==
    LET mem_type == Get(ram, "memory_type", None)
        speed == Get(ram, "speed_mhz", None)
        capacity == Get(ram, "capacity_gb", Int_(0))
        modules == Get(ram, "modules", Int_(1))
        cas == Get(ram, "cas_latency", None)
        \* the tier of speed within the generation gen
        SpeedTier(gen, high, mid) ==
            IF ~IsNumber(speed) THEN Throws("TypeError")
            ELSE IF NumGE(speed, high) THEN Tags(<<"high-speed-" \o gen>>)
            ELSE IF NumGE(speed, mid) THEN Tags(<<"mid-speed-" \o gen>>)
            ELSE Tags(<<"standard-" \o gen>>)
        \* capacity * modules if capacity else 0
        total_capacity ==
            IF ~Truthy(capacity) THEN Int_(0)
            ELSE IF ~IsNumber(capacity) \/ ~IsNumber(modules) THEN Raise("TypeError")
            ELSE IF Kind(capacity) = "nan" \/ Kind(modules) = "nan" THEN NaN
            ELSE IF Kind(capacity) \in {"inf", "ninf"} \/ Kind(modules) \in {"inf", "ninf"}
            THEN IF ~Truthy(modules) THEN NaN
                 ELSE IF NumGE(capacity, 0) = NumGE(modules, 0) THEN PosInf ELSE NegInf
            ELSE IF Kind(capacity) = "float" \/ Kind(modules) = "float"
            THEN Float((FloatOf(capacity)[2] * FloatOf(modules)[2]) \div 1000)
            ELSE Int_(IntOf(capacity)[2] * IntOf(modules)[2])
        raw == JoinRules(<<
            LowerTag(mem_type),
            IF ~Truthy(speed) \/ Kind(mem_type) # "str" \/ ~Truthy(mem_type) THEN NoTags
                ELSE IF Contains(Lower(mem_type[2]), "ddr5") THEN SpeedTier("ddr5", 6400, 5600)
                ELSE IF Contains(Lower(mem_type[2]), "ddr4") THEN SpeedTier("ddr4", 3600, 3200)
                ELSE NoTags,
            IF Kind(total_capacity) = "raise" THEN Throws("TypeError")
                ELSE IF NumGE(total_capacity, 64) THEN Tags(<<"64gb-plus">>)
                ELSE IF NumGE(total_capacity, 32) THEN Tags(<<"32gb">>)
                ELSE IF NumGE(total_capacity, 16) THEN Tags(<<"16gb">>)
                ELSE Tags(<<"8gb-or-less">>),
            IF NumGE(modules, 2) /\ NumLE(modules, 2) THEN Tags(<<"dual-channel">>)
                ELSE IF NumGE(modules, 4) /\ NumLE(modules, 4) THEN Tags(<<"quad-channel">>)
                ELSE NoTags,
            IF Truthy(Get(ram, "rgb", None)) THEN Tags(<<"rgb">>) ELSE NoTags,
            IF ~Truthy(cas) THEN NoTags
                ELSE IF ~IsNumber(cas) THEN Throws("TypeError")
                ELSE IF NumLE(cas, 16) THEN Tags(<<"low-latency">>)
                ELSE IF NumLE(cas, 22) THEN Tags(<<"mid-latency">>)
                ELSE Tags(<<"high-latency">>) >>)
    IN IF raw.exc # "" THEN raw ELSE Tags(Dedup(raw.tags))

\* CompatibilityTagger._generate_psu_tags
_generate_psu_tags(psu) ==
    LET efficiency == Get(psu, "efficiency_rating", Str(""))
        modular == Get(psu, "modular", Str(""))
        \* the tag of the first word of words found in text.lower()
        FirstWord(text, words, else_tags) ==
            IF ~Truthy(text) THEN NoTags
            ELSE IF Kind(text) # "str" THEN Throws("AttributeError")
            ELSE LET hits == {n \in 1..Len(words) :
                                \E w \in words[n][1] : Contains(Lower(text[2]), w)} IN
                 IF hits = {} THEN Tags(else_tags)
                 ELSE Tags(<<words[CHOOSE n \in hits : \A m \in hits : n <= m][2]>>)
        raw == JoinRules(<<
            BucketTag(Get(psu, "wattage", None), PSU_WATTAGE_TIERS, "psu-1200w-plus"),
            FirstWord(efficiency,
                      << <<{"titanium"}, "80plus-titanium">>,
                         <<{"platinum"}, "80plus-platinum">>,
                         <<{"gold"}, "80plus-gold">>, <<{"silver"}, "80plus-silver">>,
                         <<{"bronze"}, "80plus-bronze">>, <<{"80", "plus"}, "80plus">> >>,
                      <<>>),
            FirstWord(modular,
                      << <<{"full"}, "full-modular">>, <<{"semi"}, "semi-modular">> >>,
                      <<"non-modular">>),
            LowerTag(Get(psu, "form_factor", None)) >>)
    IN IF raw.exc # "" THEN raw ELSE Tags(Dedup(raw.tags))

\* CompatibilityTagger._generate_case_tags
_generate_case_tags(case) ==
    LET cooler_clearance == Get(case, "max_cooler_height_mm", None)
        bays_35 == Get(case, "drive_bays_35", Int_(0))
        bays_25 == Get(case, "drive_bays_25", Int_(0))
        \* for x in v: if x: tags.append(f"{prefix}{x.lower()}"), spaces
        \* replaced by dashes where dashed
        Each(v, prefix, dashed) ==
            LET lowered == MemoryTypeTags(v) IN
            IF lowered.exc # "" THEN lowered
            ELSE Tags([j \in 1..Len(lowered.tags) |->
                        prefix \o (IF dashed THEN ReplaceChar(lowered.tags[j], " ", "-")
                                   ELSE lowered.tags[j])])
        raw == JoinRules(<<
            Each(Get(case, "form_factor_support", List(<<>>)), "supports-", TRUE),
            BucketTag(Get(case, "max_gpu_length_mm", None),
                      CASE_GPU_CLEARANCE, "full-clearance"),
            IF ~Truthy(cooler_clearance) THEN NoTags
                ELSE IF ~IsNumber(cooler_clearance) THEN Throws("TypeError")
                ELSE IF NumGE(cooler_clearance, 170) THEN Tags(<<"tall-cooler-support">>)
                ELSE IF NumGE(cooler_clearance, 155) THEN Tags(<<"tower-cooler-support">>)
                ELSE IF NumGE(cooler_clearance, 120) THEN Tags(<<"mid-cooler-support">>)
                ELSE Tags(<<"low-profile-only">>),
            Each(Get(case, "radiator_support", List(<<>>)), "rad-", FALSE),
            IF ~IsNumber(bays_35) THEN Throws("TypeError")
                ELSE IF NumGE(bays_35, 4) THEN Tags(<<"many-drive-bays">>)
                ELSE IF ~IsNumber(bays_25) THEN Throws("TypeError")
                ELSE IF NumGE(bays_25, 4) THEN Tags(<<"many-drive-bays">>)
                ELSE NoTags >>)
    IN IF raw.exc # "" THEN raw ELSE Tags(Dedup(raw.tags))

\* CompatibilityTagger._generate_cooler_tags
_generate_cooler_tags(cooler) ==
    LET cooler_type == Get(cooler, "cooler_type", Str(""))
        rad_size == Get(cooler, "radiator_size_mm", None)
        tdp_rating == Get(cooler, "tdp_rating", None)
        sockets == MemoryTypeTags(Get(cooler, "socket_support", List(<<>>)))
        raw == JoinRules(<<
            IF sockets.exc # "" THEN sockets
                ELSE Tags([j \in 1..Len(sockets.tags) |-> "supports-" \o sockets.tags[j]]),
            IF ~Truthy(cooler_type) THEN NoTags
                ELSE IF Kind(cooler_type) # "str" THEN Throws("AttributeError")
                ELSE IF \E w \in {"aio", "liquid", "water"} :
                            Contains(Lower(cooler_type[2]), w)
                THEN Tags(<<"aio", "liquid-cooling">>)
                ELSE Tags(<<"air-cooling">>),
            BucketTag(Get(cooler, "height_mm", None),
                      COOLER_HEIGHT_CATEGORIES, "tall-tower"),
            IF Truthy(rad_size) THEN Tags(<<PyStr(rad_size) \o "mm-rad">>) ELSE NoTags,
            IF ~Truthy(tdp_rating) THEN NoTags
                ELSE IF ~IsNumber(tdp_rating) THEN Throws("TypeError")
                ELSE IF NumGE(tdp_rating, 250) THEN Tags(<<"high-tdp-cooling">>)
                ELSE IF NumGE(tdp_rating, 150) THEN Tags(<<"mid-tdp-cooling">>)
                ELSE Tags(<<"low-tdp-cooling">>),
            IF Truthy(Get(cooler, "rgb", None)) THEN Tags(<<"rgb">>) ELSE NoTags >>)
    IN IF raw.exc # "" THEN raw ELSE Tags(Dedup(raw.tags))

\* CompatibilityTagger.generate_tags; an unknown type gets no tags
generate_tags(component) ==
    LET ct == Get(component, "component_type", Str("")) IN
    IF Kind(ct) # "str" THEN Throws("AttributeError")
    ELSE CASE Upper(ct[2]) = "CPU" -> _generate_cpu_tags(component)
           [] Upper(ct[2]) = "GPU" -> _generate_gpu_tags(component)
           [] Upper(ct[2]) = "MOTHERBOARD" -> _generate_motherboard_tags(component)
           [] Upper(ct[2]) = "RAM" -> _generate_ram_tags(component)
           [] Upper(ct[2]) = "PSU" -> _generate_psu_tags(component)
           [] Upper(ct[2]) = "CASE" -> _generate_case_tags(component)
           [] Upper(ct[2]) = "COOLER" -> _generate_cooler_tags(component)
           [] OTHER -> NoTags

\* CompatibilityTagger.tag_dataframe
tag_dataframe(df) ==
    LET res == [r \in 1..Len(df.rows) |-> generate_tags(df.rows[r])]
        bad == {r \in 1..Len(res) : res[r].exc # ""}
    IN IF bad # {} THEN Failed(res[CHOOSE r \in bad : \A q \in bad : r <= q].exc)
       ELSE SetColumn(df, "compatibility_tags",
                [r \in 1..Len(res) |->
                    List([j \in 1..Len(res[r].tags) |-> Str(res[r].tags[j])])])

-----------------------------------------------------------------------------
(* SchemaMapper.                                                           *)

\* The schemas, fields in dict order: <<field, type, required>> and, for a
\* field with a "default", <<field, type, required, default>>.
CPU_SCHEMA ==
    << <<"objectID", "str", TRUE>>,
       <<"component_type", "str", TRUE, Str("CPU")>>,
       <<"brand", "str", TRUE>>, <<"model", "str", TRUE>>,
       <<"socket", "str", TRUE>>, <<"tdp_watts", "int", TRUE>>,
       <<"max_tdp_watts", "int", FALSE>>,
       <<"cores", "int", TRUE>>, <<"threads", "int", TRUE>>,
       <<"base_clock_ghz", "float", FALSE>>, <<"boost_clock_ghz", "float", FALSE>>,
       <<"memory_type", "list", TRUE>>, <<"pcie_version", "str", FALSE>>,
       <<"integrated_graphics", "bool", FALSE, Bool(FALSE)>>,
       <<"price_usd", "float", TRUE>>, <<"release_date", "str", FALSE>>,
       <<"performance_tier", "str", TRUE>>, <<"image_url", "str", FALSE>>,
       <<"compatibility_tags", "list", TRUE>> >>
GPU_SCHEMA ==
    << <<"objectID", "str", TRUE>>,
       <<"component_type", "str", TRUE, Str("GPU")>>,
       <<"brand", "str", TRUE>>, <<"model", "str", TRUE>>,
       <<"length_mm", "int", TRUE>>, <<"tdp_watts", "int", TRUE>>,
       <<"vram_gb", "int", TRUE>>, <<"memory_type", "str", FALSE>>,
       <<"memory_bandwidth_gbps", "float", FALSE>>,
       <<"pcie_version", "str", FALSE>>, <<"power_connectors", "str", FALSE>>,
       <<"recommended_psu_watts", "int", FALSE>>,
       <<"price_usd", "float", TRUE>>, <<"release_date", "str", FALSE>>,
       <<"performance_tier", "str", TRUE>>, <<"image_url", "str", FALSE>>,
       <<"compatibility_tags", "list", TRUE>> >>
MOTHERBOARD_SCHEMA ==
    << <<"objectID", "str", TRUE>>,
       <<"component_type", "str", TRUE, Str("Motherboard")>>,
       <<"brand", "str", TRUE>>, <<"model", "str", TRUE>>,
       <<"socket", "str", TRUE>>, <<"chipset", "str", FALSE>>,
       <<"form_factor", "str", TRUE>>, <<"memory_type", "list", TRUE>>,
       <<"memory_slots", "int", FALSE, Int_(4)>>,
       <<"max_memory_gb", "int", FALSE, Int_(128)>>,
       <<"m2_slots", "int", FALSE, Int_(1)>>,
       <<"wifi", "bool", FALSE, Bool(FALSE)>>,
       <<"price_usd", "float", TRUE>>,
       <<"performance_tier", "str", TRUE>>, <<"image_url", "str", FALSE>>,
       <<"compatibility_tags", "list", TRUE>> >>
RAM_SCHEMA ==
    << <<"objectID", "str", TRUE>>,
       <<"component_type", "str", TRUE, Str("RAM")>>,
       <<"brand", "str", TRUE>>, <<"model", "str", TRUE>>,
       <<"memory_type", "str", TRUE>>, <<"speed_mhz", "int", TRUE>>,
       <<"capacity_gb", "int", TRUE>>, <<"modules", "int", FALSE, Int_(2)>>,
       <<"cas_latency", "int", FALSE>>, <<"voltage", "float", FALSE>>,
       <<"rgb", "bool", FALSE, Bool(FALSE)>>,
       <<"price_usd", "float", TRUE>>,
       <<"performance_tier", "str", TRUE>>, <<"image_url", "str", FALSE>>,
       <<"compatibility_tags", "list", TRUE>> >>
PSU_SCHEMA ==
    << <<"objectID", "str", TRUE>>,
       <<"component_type", "str", TRUE, Str("PSU")>>,
       <<"brand", "str", TRUE>>, <<"model", "str", TRUE>>,
       <<"wattage", "int", TRUE>>, <<"efficiency_rating", "str", FALSE>>,
       <<"modular", "str", FALSE>>,
       <<"form_factor", "str", FALSE, Str("ATX")>>,
       <<"price_usd", "float", TRUE>>,
       <<"performance_tier", "str", TRUE>>, <<"image_url", "str", FALSE>>,
       <<"compatibility_tags", "list", TRUE>> >>
CASE_SCHEMA ==
    << <<"objectID", "str", TRUE>>,
       <<"component_type", "str", TRUE, Str("Case")>>,
       <<"brand", "str", TRUE>>, <<"model", "str", TRUE>>,
       <<"form_factor_support", "list", TRUE>>,
       <<"max_gpu_length_mm", "int", TRUE>>,
       <<"max_cooler_height_mm", "int", TRUE>>,
       <<"max_psu_length_mm", "int", FALSE>>,
       <<"drive_bays_35", "int", FALSE, Int_(2)>>,
       <<"drive_bays_25", "int", FALSE, Int_(2)>>,
       <<"radiator_support", "list", FALSE>>,
       <<"price_usd", "float", TRUE>>,
       <<"performance_tier", "str", TRUE>>, <<"image_url", "str", FALSE>>,
       <<"compatibility_tags", "list", TRUE>> >>
COOLER_SCHEMA ==
    << <<"objectID", "str", TRUE>>,
       <<"component_type", "str", TRUE, Str("Cooler")>>,
       <<"brand", "str", TRUE>>, <<"model", "str", TRUE>>,
       <<"cooler_type", "str", TRUE>>, <<"socket_support", "list", TRUE>>,
       <<"height_mm", "int", TRUE>>, <<"radiator_size_mm", "int", FALSE>>,
       <<"tdp_rating", "int", FALSE>>, <<"rgb", "bool", FALSE, Bool(FALSE)>>,
       <<"price_usd", "float", TRUE>>,
       <<"performance_tier", "str", TRUE>>, <<"image_url", "str", FALSE>>,
       <<"compatibility_tags", "list", TRUE>> >>

\* SCHEMAS.get(component_type): <<>> for an unknown type
SCHEMAS(component_type) ==
    CASE component_type = "CPU" -> CPU_SCHEMA
      [] component_type = "GPU" -> GPU_SCHEMA
      [] component_type = "Motherboard" -> MOTHERBOARD_SCHEMA
      [] component_type = "RAM" -> RAM_SCHEMA
      [] component_type = "PSU" -> PSU_SCHEMA
      [] component_type = "Case" -> CASE_SCHEMA
      [] component_type = "Cooler" -> COOLER_SCHEMA
      [] OTHER -> <<>>

FIELD_MAPPINGS ==
    ("name" :> "model") @@ ("tdp" :> "tdp_watts") @@ ("price" :> "price_usd")
    @@ ("msrp" :> "price_usd") @@ ("vram" :> "vram_gb")
    @@ ("memory_size" :> "vram_gb") @@ ("base_clock" :> "base_clock_ghz")
    @@ ("boost_clock" :> "boost_clock_ghz") @@ ("length" :> "length_mm")
    @@ ("height" :> "height_mm") @@ ("type" :> "cooler_type")

\* SchemaMapper._apply_field_mappings; keys is record's keys in dict order
RECURSIVE _apply_field_mappings(_, _)
_apply_field_mappings(keys, record) ==
    IF keys = <<>> THEN <<>>
    ELSE LET key == keys[Len(keys)]
             mapped == _apply_field_mappings(SubSeq(keys, 1, Len(keys) - 1), record)
             mapped_key == IF key \in DOMAIN FIELD_MAPPINGS
                           THEN FIELD_MAPPINGS[key] ELSE key
         IN IF mapped_key \notin DOMAIN mapped \/ Kind(mapped[mapped_key]) = "none"
            THEN (mapped_key :> record[key]) @@ mapped
            ELSE mapped

\* float(value): of a number the number; of a string, here one without a
\* digit, the special values Python parses, else ValueError
PyFloat(value) ==
    IF IsNumber(value) THEN FloatOf(value)
    ELSE IF Kind(value) # "str" THEN Raise("TypeError")
    ELSE LET t == Lower(Strip(value[2])) IN
         CASE t \in {"nan", "+nan", "-nan"} -> NaN
           [] t \in {"inf", "+inf", "infinity", "+infinity"} -> PosInf
           [] t \in {"-inf", "-infinity"} -> NegInf
           [] OTHER -> Raise("ValueError")

\* value.split(","), each part stripped
RECURSIVE SplitCommas(_)
SplitCommas(s) ==
    LET commas == {i \in 1..Len(s) : Chr(s, i) = ","} IN
    IF commas = {} THEN <<Str(Strip(s))>>
    ELSE LET c == CHOOSE i \in commas : \A j \in commas : i <= j IN
         <<Str(Strip(SubSeq(s, 1, c - 1)))>> \o SplitCommas(SubSeq(s, c + 1, Len(s)))

\* SchemaMapper._coerce_type
_coerce_type(value, target_type) ==
    LET at == IF Kind(value) = "str" THEN FirstDigitAt(value[2]) ELSE 0 IN
    IF Kind(value) = "none" THEN None
    ELSE CASE target_type = "str" -> Str(PyStr(value))
           [] target_type = "int" ->
                IF at > 0 THEN Int_(DigitsInt(DigitRunFrom(value[2], at)))
                ELSE IF Kind(PyFloat(value)) = "raise" THEN PyFloat(value)
                ELSE IntOf(PyFloat(value))
           [] target_type = "float" ->
                IF at > 0 THEN Float(DecimalAt(value[2], at).milli)
                ELSE PyFloat(value)
           [] target_type = "bool" ->
                IF Kind(value) = "bool" THEN value
                ELSE IF Kind(value) = "str"
                THEN Bool(Lower(value[2]) \in {"true", "yes", "1", "y"})
                ELSE Bool(Truthy(value))
           [] target_type = "list" ->
                IF Kind(value) = "list" THEN value
                ELSE IF Kind(value) = "str" /\ Contains(value[2], ",")
                THEN List(SplitCommas(value[2]))
                ELSE List(<<value>>)
           [] OTHER -> value

\* The loop of map_record over the fields of schema not yet visited:
\* the mapped record, None, or the exception that escapes the try
RECURSIVE MapFields(_, _, _)
MapFields(schema, record, mapped) ==
    IF schema = <<>> THEN Dict(mapped)
    ELSE LET field_spec == Head(schema)
             field_name == field_spec[1]
             raw == Get(record, field_name, None)
             missing == Kind(raw) \in {"none", "nan"}
             value == IF missing /\ Len(field_spec) = 4 THEN field_spec[4] ELSE raw
             coerced == _coerce_type(value, field_spec[2])
         IN IF missing /\ Len(field_spec) < 4
            THEN IF field_spec[3] THEN None
                 ELSE MapFields(Tail(schema), record, mapped)
            ELSE IF Kind(coerced) = "raise"
            THEN IF coerced[2] \notin {"ValueError", "TypeError"} THEN coerced
                 ELSE IF field_spec[3] THEN None
                 ELSE MapFields(Tail(schema), record, mapped)
            ELSE MapFields(Tail(schema), record, (field_name :> coerced) @@ mapped)

\* What map_record would return did it only rename the fields, without the
\* check of the required ones
map_record_Unchecked(keys, record, component_type) ==
    Dict(_apply_field_mappings(keys, record))

\* What map_record would return did it ignore the defaults the schemas
\* declare
map_record_NoDefaults(keys, record, component_type) ==
    LET schema == SCHEMAS(component_type) IN
    IF schema = <<>> THEN None
    ELSE MapFields([n \in 1..Len(schema) |-> SubSeq(schema[n], 1, 3)],
                   _apply_field_mappings(keys, record), <<>>)

\* SchemaMapper.map_record; keys is record's keys in dict order
map_record(keys, record, component_type) ==
    IF SCHEMAS(component_type) = <<>> THEN None
    ELSE MapFields(SCHEMAS(component_type), _apply_field_mappings(keys, record), <<>>)

\* SchemaMapper.validate_record: the error messages, one for every
\* required field whose value is None (or absent) or ""
validate_record(record, component_type) ==
    LET schema == SCHEMAS(component_type)
        lacking == SelectSeq(schema, LAMBDA field_spec :
                       /\ field_spec[3]
                       /\ Get(record, field_spec[1], None) \in {None, Str("")})
    IN IF schema = <<>> THEN <<"Unknown component type: " \o component_type>>
       ELSE [n \in 1..Len(lacking) |-> "Missing required field: " \o lacking[n][1]]

\* pd.DataFrame(mapped_records): the columns are the union of the keys,
\* a record without a key gets NaN
FromRecords(schema, recs) ==
    LET keys == UNION {DOMAIN recs[r] : r \in 1..Len(recs)}
        cols == SelectSeq([n \in 1..Len(schema) |-> schema[n][1]],
                          LAMBDA c : c \in keys)
        filled == DF(cols, [r \in 1..Len(recs) |->
                        [c \in keys |-> Get(recs[r], c, NaN)]])
    IN IF recs = <<>> THEN EmptyDF
       ELSE [filled EXCEPT !.rows =
                [r \in 1..Len(recs) |->
                    [c \in keys |->
                        InferColumn([q \in 1..Len(recs) |-> filled.rows[q][c]])[r]]]]

\* SchemaMapper.map_dataframe
map_dataframe(df) ==
    LET ct == IF "component_type" \in Columns(df)
              THEN df.rows[1]["component_type"] ELSE None
        res == [r \in 1..Len(df.rows) |-> map_record(df.cols, df.rows[r], PyStr(ct))]
        kept == SelectSeq(res, LAMBDA m : Kind(m) = "dict" /\ DOMAIN m[2] # {})
    IN IF df.exc # "" \/ IsEmpty(df) THEN df
       ELSE IF ~Truthy(ct) THEN EmptyDF
       ELSE IF FirstRaise(res) # "" THEN Failed(FirstRaise(res))
       ELSE FromRecords(SCHEMAS(PyStr(ct)), [r \in 1..Len(kept) |-> kept[r][2]])

-----------------------------------------------------------------------------
(* KaggleExtractor.                                                        *)

\* What data/raw holds for a type with no CSV file.
NoFile == Failed("FileNotFoundError")

\* pd.read_csv of a file with the header cols and the cells rows: every
\* column gets one dtype (an empty cell is NaN, and makes ints floats)
read_csv(cols, rows) ==
    DF(cols, [r \in 1..Len(rows) |->
                [c \in {cols[n] : n \in 1..Len(cols)} |->
                    InferColumn([q \in 1..Len(rows) |-> rows[q][c]])[r]]])

REQUIRED_CPU_COLUMNS == <<"name", "brand", "cores", "threads">>
REQUIRED_GPU_COLUMNS == <<"name", "brand", "vram">>

\* KaggleExtractor.validate_schema
validate_schema(df, required_columns) ==
    \A n \in 1..Len(required_columns) : required_columns[n] \in Columns(df)

\* df["component_type"] = component_type
WithType(df, component_type) ==
    SetColumn(df, "component_type",
              [r \in 1..Len(df.rows) |-> Str(component_type)])

\* KaggleExtractor.extract_cpus and extract_gpus on the file of the type:
\* FileNotFoundError without a file, ValueError without a required column
extract_required(file, required_columns, component_type) ==
    IF file = NoFile THEN Failed("FileNotFoundError")
    ELSE IF ~validate_schema(file, required_columns) THEN Failed("ValueError")
    ELSE WithType(file, component_type)

\* KaggleExtractor.extract_motherboards .. extract_coolers: an empty
\* DataFrame without a file, no check of the columns
extract_optional(file, component_type) ==
    IF file = NoFile THEN EmptyDF ELSE WithType(file, component_type)

\* try: extract_cpus() / extract_gpus()  except FileNotFoundError: empty
SkipMissing(df) == IF df.exc = "FileNotFoundError" THEN EmptyDF ELSE df

all_components == <<"CPU", "GPU", "Motherboard", "RAM", "PSU", "Case", "Cooler">>

\* KaggleExtractor.extract_all: the dict as <<type, DataFrame>> pairs in
\* insertion order, or the exception that leaves the method; steps are
\* the extractions it began, in order
extract_all(files) ==
    LET cpu == SkipMissing(extract_required(files["CPU"], REQUIRED_CPU_COLUMNS, "CPU"))
        gpu == SkipMissing(extract_required(files["GPU"], REQUIRED_GPU_COLUMNS, "GPU"))
        began(n) == [k \in 1..n |-> <<"extract", all_components[k]>>]
    IN IF cpu.exc # "" THEN [exc |-> cpu.exc, data |-> <<>>, steps |-> began(1)]
       ELSE IF gpu.exc # "" THEN [exc |-> gpu.exc, data |-> <<>>, steps |-> began(2)]
       ELSE [exc |-> "", steps |-> began(Len(all_components)),
             data |-> << <<"CPU", cpu>>, <<"GPU", gpu>>,
                         <<"Motherboard", extract_optional(files["Motherboard"], "Motherboard")>>,
                         <<"RAM", extract_optional(files["RAM"], "RAM")>>,
                         <<"PSU", extract_optional(files["PSU"], "PSU")>>,
                         <<"Case", extract_optional(files["Case"], "Case")>>,
                         <<"Cooler", extract_optional(files["Cooler"], "Cooler")>> >>]

-----------------------------------------------------------------------------
(* ETLPipeline: the stages.                                                *)

\* PipelineStats(); a time is 0 until time.time() is stored in it
PipelineStats ==
    [start_time |-> 0, end_time |-> 0, extracted_records |-> <<>>,
     normalized_records |-> 0, tagged_records |-> 0, mapped_records |-> 0,
     uploaded_records |-> 0, failed_records |-> 0,
     errors |-> <<>>, warnings |-> <<>>]

\* pd.DataFrame(scraped_gpus) with the component type set: one GPU as
\* scrape_gpu_specs builds it (it sets no brand)
ScrapedGPUs ==
    WithType(DF(<<"name", "length_mm", "tdp_watts", "vram_gb">>,
                << ("name" :> Str("RTX 4090")) @@ ("length_mm" :> Int_(304))
                   @@ ("tdp_watts" :> Int_(450)) @@ ("vram_gb" :> Int_(24)) >>),
             "GPU")

\* What _extract would do did it record the scrape's failure as an error
_extract_ScrapeIsError(st, files, components, skip_scraping, scrape) ==
    LET target_list == IF components = <<>> THEN all_components ELSE components
        target == {target_list[n] : n \in 1..Len(target_list)}
        csv_data == extract_all(files)
        data == SelectSeq(csv_data.data,
                          LAMBDA e : e[1] \in target /\ ~IsEmpty(e[2]))
        counted == [n \in 1..Len(data) |-> <<data[n][1], Len(data[n][2].rows)>>]
        scraping == ~skip_scraping /\ "GPU" \in target
        has_gpu == \E n \in 1..Len(data) : data[n][1] = "GPU"
        use_scraped == scraping /\ scrape = "some" /\ ~has_gpu
    IN IF csv_data.exc # ""
       THEN [exc |-> csv_data.exc, data |-> <<>>, stats |-> st,
             steps |-> csv_data.steps]
       ELSE [exc |-> "",
             steps |-> csv_data.steps \o
                 (IF scraping THEN << <<"scrape", "GPU">> >> ELSE <<>>),
             data |-> data \o (IF use_scraped THEN << <<"GPU", ScrapedGPUs>> >> ELSE <<>>),
             stats |-> [st EXCEPT
                !.extracted_records = counted \o
                    (IF use_scraped
                     THEN << <<"GPU_scraped", Len(ScrapedGPUs.rows)>> >> ELSE <<>>),
                !.warnings = @ \o
                    (IF scraping /\ scrape = "raise"
                     THEN <<"GPU scraping failed">> ELSE <<>>),
                !.errors = @ \o
                    (IF scraping /\ scrape = "raise"
                     THEN <<"GPU scraping failed">> ELSE <<>>)]]

\* ETLPipeline._extract: the exception it raises or the data it returns,
\* with the stats as it leaves them. scrape is what scrape_gpu_list does:
\* "raise", "empty" (it finds nothing) or "some" (it returns GPUs)
_extract(st, files, components, skip_scraping, scrape) ==
    LET target_list == IF components = <<>> THEN all_components ELSE components
        target == {target_list[n] : n \in 1..Len(target_list)}
        csv_data == extract_all(files)
        data == SelectSeq(csv_data.data,
                          LAMBDA e : e[1] \in target /\ ~IsEmpty(e[2]))
        counted == [n \in 1..Len(data) |-> <<data[n][1], Len(data[n][2].rows)>>]
        scraping == ~skip_scraping /\ "GPU" \in target
        has_gpu == \E n \in 1..Len(data) : data[n][1] = "GPU"
        use_scraped == scraping /\ scrape = "some" /\ ~has_gpu
    IN IF csv_data.exc # ""
       THEN [exc |-> csv_data.exc, data |-> <<>>, stats |-> st,
             steps |-> csv_data.steps]
       ELSE [exc |-> "",
             steps |-> csv_data.steps \o
                 (IF scraping THEN << <<"scrape", "GPU">> >> ELSE <<>>),
             data |-> data \o (IF use_scraped THEN << <<"GPU", ScrapedGPUs>> >> ELSE <<>>),
             stats |-> [st EXCEPT
                !.extracted_records = counted \o
                    (IF use_scraped
                     THEN << <<"GPU_scraped", Len(ScrapedGPUs.rows)>> >> ELSE <<>>),
                !.warnings = @ \o
                    (IF scraping /\ scrape = "raise"
                     THEN <<"GPU scraping failed">> ELSE <<>>)]]

\* mapped_df.to_json(orient="records"): JSON has no NaN or Infinity, they
\* are written as null
to_json(records) ==
    [r \in 1..Len(records) |->
        [c \in DOMAIN records[r] |->
            IF IsNonFinite(records[r][c]) THEN None ELSE records[r][c]]]

\* The loop of _transform, step by step. acc holds the exception raised so
\* far, the stats, all_records and the files written under data/processed.

\* What the loop would do were the count written
\* self.stats.mapped_records = len(mapped_df)
KeepMapped_CountOverwritten(acc, comp_type, mapped_df) ==
    LET counted == [acc.stats EXCEPT !.mapped_records = Len(mapped_df.rows)] IN
    IF mapped_df.exc # "" THEN [acc EXCEPT !.exc = mapped_df.exc]
    ELSE IF IsEmpty(mapped_df)
    THEN [acc EXCEPT !.stats = [counted EXCEPT !.warnings =
            Append(@, "No valid " \o comp_type \o " records after mapping")]]
    ELSE [acc EXCEPT !.stats = counted,
                     !.records = @ \o mapped_df.rows,
                     !.files = @ \o << <<Lower(comp_type) \o "_processed.json",
                                         to_json(mapped_df.rows)>> >>]

\* "Convert to records" and "Save processed data", or the warning and the
\* continue when nothing was mapped
KeepMapped(acc, comp_type, mapped_df) ==
    LET counted == [acc.stats EXCEPT !.mapped_records = @ + Len(mapped_df.rows)] IN
    IF mapped_df.exc # "" THEN [acc EXCEPT !.exc = mapped_df.exc]
    ELSE IF IsEmpty(mapped_df)
    THEN [acc EXCEPT !.stats = [counted EXCEPT !.warnings =
            Append(@, "No valid " \o comp_type \o " records after mapping")]]
    ELSE [acc EXCEPT !.stats = counted,
                     !.records = @ \o mapped_df.rows,
                     !.files = @ \o << <<Lower(comp_type) \o "_processed.json",
                                         to_json(mapped_df.rows)>> >>]

\* "Step 3: Map to schema" and what follows
MapTagged(acc, comp_type, tagged_df) ==
    IF tagged_df.exc # "" THEN [acc EXCEPT !.exc = tagged_df.exc]
    ELSE KeepMapped([acc EXCEPT !.stats.tagged_records = @ + Len(tagged_df.rows),
                                !.steps = Append(@, <<"map", comp_type>>)],
                    comp_type, map_dataframe(tagged_df))

\* What the loop would do did it map the normalized records untagged
TagNormalized_SkipsTag(acc, comp_type, normalized_df) ==
    IF normalized_df.exc # "" THEN [acc EXCEPT !.exc = normalized_df.exc]
    ELSE KeepMapped([acc EXCEPT !.stats.normalized_records = @ + Len(normalized_df.rows),
                                !.steps = Append(@, <<"map", comp_type>>)],
                    comp_type, map_dataframe(normalized_df))

\* "Step 2: Add compatibility tags" and what follows
TagNormalized(acc, comp_type, normalized_df) ==
    IF normalized_df.exc # "" THEN [acc EXCEPT !.exc = normalized_df.exc]
    ELSE MapTagged([acc EXCEPT !.stats.normalized_records = @ + Len(normalized_df.rows),
                               !.steps = Append(@, <<"tag", comp_type>>)],
                   comp_type, tag_dataframe(normalized_df))

\* One pass of the loop, for the DataFrame df of comp_type
TransformType(acc, comp_type, df) ==
    IF acc.exc # "" \/ IsEmpty(df) THEN acc
    ELSE TagNormalized([acc EXCEPT !.steps = Append(@, <<"normalize", comp_type>>)],
                       comp_type, normalize_dataframe(df))

\* ETLPipeline._transform
RECURSIVE _transform(_, _)
_transform(st, data) ==
    IF data = <<>>
    THEN [exc |-> "", stats |-> st, records |-> <<>>, files |-> <<>>,
          steps |-> <<>>]
    ELSE LET last == data[Len(data)] IN
         TransformType(_transform(st, SubSeq(data, 1, Len(data) - 1)), last[1], last[2])

-----------------------------------------------------------------------------
(* AlgoliaLoader: sanitization.                                            *)

\* The list branch of _sanitize_record: dicts are sanitized recursively,
\* non-finite floats become None, anything else (a nested list too) is kept.
RECURSIVE SanitizeRecord(_)
SanitizeList(q) ==
    [j \in 1..Len(q) |->
        IF Kind(q[j]) = "dict" THEN Dict(SanitizeRecord(q[j][2]))
        ELSE IF IsNonFinite(q[j]) THEN None
        ELSE q[j]]

\* AlgoliaLoader._sanitize_record
SanitizeRecord(record) ==
    [key \in DOMAIN record |->
        LET value == record[key] IN
        IF IsNonFinite(value) THEN None
        ELSE IF Kind(value) = "dict" THEN Dict(SanitizeRecord(value[2]))
        ELSE IF Kind(value) = "list" THEN List(SanitizeList(value[2]))
        ELSE value]

\* batch = [self._sanitize_record(record) for record in batch]
SanitizeBatch(batch) == [j \in 1..Len(batch) |-> SanitizeRecord(batch[j])]

-----------------------------------------------------------------------------
(* AlgoliaLoader: the Upload service client and the upload loop.           *)

\* One entry of the log of client calls. batch_num is the number
\* upload_records gives the batch being saved (0 outside a save).
\* time.sleep(secs) between two attempts is logged with them, as op "sleep".
Call(op, ok, objects, batch_num, secs) ==
    [op |-> op, ok |-> ok, objects |-> objects, batch_num |-> batch_num,
     secs |-> secs]

\* The outcomes of a call followed by wait_for_task on its task.
Outcomes == {"ok", "call_fail", "wait_fail"}

\* The client calls of one "call, then wait for its task" under outcome o:
\* the wait is not reached when the call itself raises.
CallThenWait(op, o, objects, batch_num) ==
    IF o = "call_fail" THEN <<Call(op, FALSE, objects, batch_num, 0)>>
    ELSE <<Call(op, TRUE, objects, batch_num, 0),
           Call("wait_for_task", o = "ok", <<>>, batch_num, 0)>>

\* AlgoliaLoader._clear_index: an exception is logged and swallowed.
ClearIndex(o) == CallThenWait("clear_objects", o, <<>>, 0)

\* The locals of upload_records before it is called.
UpIdle ==
    [lpc |-> "idle", records |-> <<>>, i |-> 0, attempt |-> 0, batch |-> <<>>,
     total_uploaded |-> 0, total_errors |-> 0, result |-> <<>>]

\* batch_num = (i // self.BATCH_SIZE) + 1
BatchNum(i) == (i \div BATCH_SIZE) + 1

\* The locals on entering _upload_batch_with_retry for the batch at i: the
\* batch is sanitized once, before the first attempt.
EnterBatch(records, i, uploaded, errors) ==
    [lpc |-> "saving", records |-> records, i |-> i, attempt |-> 0,
     batch |-> SanitizeBatch(Slice(records, i, BATCH_SIZE)),
     total_uploaded |-> uploaded, total_errors |-> errors, result |-> <<>>]

\* What upload_records would do did it clear the index before it tests
\* the list
UploadRecordsBegin_ClearsFirst(log, records, clear_existing, o) ==
    LET cleared == log \o (IF clear_existing THEN ClearIndex(o) ELSE <<>>) IN
    IF records = <<>>
    THEN /\ up' = [UpIdle EXCEPT !.lpc = "done",
                                 !.result = [uploaded |-> 0, errors |-> 0]]
         /\ calls' = cleared
    ELSE /\ calls' = cleared
         /\ up' = EnterBatch(records, 0, 0, 0)

\* upload_records up to its first save, log being the client calls made
\* before it: the empty list returns at once, otherwise the index is
\* cleared if asked and the first batch is entered.
UploadRecordsBegin(log, records, clear_existing, o) ==
    IF records = <<>>
    THEN /\ up' = [UpIdle EXCEPT !.lpc = "done",
                                 !.result = [uploaded |-> 0, errors |-> 0]]
         /\ calls' = log
    ELSE /\ calls' = log \o (IF clear_existing THEN ClearIndex(o) ELSE <<>>)
         /\ up' = EnterBatch(records, 0, 0, 0)

\* What the loop would do did a failed batch end it (a raise not caught
\* per batch): the totals are returned with the later batches unsent
NextBatch_StopsOnError(uploaded, errors) ==
    LET later == {j \in Range(Len(up.records), BATCH_SIZE) : j > up.i} IN
    IF later # {} /\ errors = up.total_errors
    THEN EnterBatch(up.records, CHOOSE j \in later : \A k \in later : j <= k,
                    uploaded, errors)
    ELSE [up EXCEPT !.lpc = "done", !.total_uploaded = uploaded,
                    !.total_errors = errors,
                    !.result = [uploaded |-> uploaded, errors |-> errors]]

\* What the loop would do were a failed batch counted by
\* total_errors = len(batch)
NextBatch_ErrorsOverwritten(uploaded, errors) ==
    LET later == {j \in Range(Len(up.records), BATCH_SIZE) : j > up.i}
        kept == IF errors > up.total_errors THEN errors - up.total_errors
                ELSE errors
    IN
    IF later # {}
    THEN EnterBatch(up.records, CHOOSE j \in later : \A k \in later : j <= k,
                    uploaded, kept)
    ELSE [up EXCEPT !.lpc = "done", !.total_uploaded = uploaded,
                    !.total_errors = kept,
                    !.result = [uploaded |-> uploaded, errors |-> kept]]

\* The for loop of upload_records after the batch at up.i ended with the
\* totals given: the next batch of range(0, len(records), BATCH_SIZE), or
\* the return of the totals.
NextBatch(uploaded, errors) ==
    LET later == {j \in Range(Len(up.records), BATCH_SIZE) : j > up.i} IN
    IF later # {}
    THEN EnterBatch(up.records, CHOOSE j \in later : \A k \in later : j <= k,
                    uploaded, errors)
    ELSE [up EXCEPT !.lpc = "done", !.total_uploaded = uploaded,
                    !.total_errors = errors,
                    !.result = [uploaded |-> uploaded, errors |-> errors]]

\* What the test would be were it written attempt < MAX_RETRIES: the last
\* failure would sleep too, and the loop would end without a raise
ShouldRetry_NeverRaises(attempt) == attempt < MAX_RETRIES

\* if attempt < self.MAX_RETRIES - 1: sleep and retry, else: raise
ShouldRetry(attempt) == attempt < MAX_RETRIES - 1

\* One pass of the attempt loop of _upload_batch_with_retry with the
\* service answering o, and what upload_records does with its end: a
\* returned response counts the batch as uploaded, a raised exception
\* counts it as errors.
SaveAttempt(o) ==
    LET n == Len(up.batch)
        bn == BatchNum(up.i)
        saved == CallThenWait("save_objects", o, up.batch, bn)
    IN
    /\ up.lpc = "saving"
    /\ IF o = "ok"
       THEN /\ calls' = calls \o saved
            /\ up' = NextBatch(up.total_uploaded + n, up.total_errors)
       ELSE IF ShouldRetry(up.attempt)
       THEN /\ calls' = calls \o saved
                        \* wait_time = 2 ** attempt; time.sleep(wait_time)
                        \o <<Call("sleep", TRUE, <<>>, bn, 2 ^ up.attempt)>>
            /\ up' = IF up.attempt + 1 < MAX_RETRIES
                     THEN [up EXCEPT !.attempt = @ + 1]
                     \* range(MAX_RETRIES) exhausted: the function ends
                     \* without a raise
                     ELSE NextBatch(up.total_uploaded + n, up.total_errors)
       ELSE /\ calls' = calls \o saved
            /\ up' = NextBatch(up.total_uploaded, up.total_errors + n)
    /\ UNCHANGED <<step_log, given, answer, sources, env, pc, args, stats, raw_data, processed,
                   snapshots, loader, outcome>>


-----------------------------------------------------------------------------
(* ETLPipeline.run, stage by stage.                                        *)

\* What run() has delivered: the exception raised to the caller, the
\* summaries _log_summary logged, the stats returned.
NoOutcome == [raised |-> "", logged |-> <<>>, returned |-> <<>>]

\* The defaults of run()'s arguments (components = None is <<>>).
DefaultArgs ==
    [components |-> <<>>, clear_index |-> FALSE, skip_scraping |-> TRUE,
     dry_run |-> FALSE]

\* What the handler would do did it record the message at two places
RunRaises_Twice(st, e) ==
    /\ stats' = [st EXCEPT !.errors = Append(Append(@, e), e), !.end_time = 1]
    /\ outcome' = [outcome EXCEPT !.raised = e]
    /\ pc' = "done"

\* except Exception as e: errors.append(str(e)); raise -- and the finally
\* clause. st is the stats when e reaches run().
RunRaises(st, e) ==
    /\ stats' = [st EXCEPT !.errors = Append(@, e), !.end_time = 1]
    /\ outcome' = [outcome EXCEPT !.raised = e]
    /\ pc' = "done"

\* The finally clause, self._log_summary() and return self.stats.
RunReturns(st) ==
    LET final == [st EXCEPT !.end_time = 1] IN
    /\ stats' = final
    /\ outcome' = [outcome EXCEPT !.logged = Append(@, final),
                                  !.returned = <<final>>]
    /\ pc' = "done"

\* run() from its call to the end of Stage 1
Extract(components, clear_index, skip_scraping, dry_run, scrape) ==
    /\ pc = "start"
    /\ args' = [components |-> components, clear_index |-> clear_index,
                skip_scraping |-> skip_scraping, dry_run |-> dry_run]
    /\ \E ex \in {_extract([PipelineStats EXCEPT !.start_time = 1], sources,
                           components, skip_scraping, scrape)} :
          /\ step_log' = ex.steps
          /\ IF ex.exc # ""
             THEN RunRaises(ex.stats, ex.exc) /\ raw_data' = raw_data
             ELSE /\ stats' = ex.stats
                  /\ raw_data' = ex.data
                  /\ pc' = "transform"
                  /\ outcome' = outcome
    /\ UNCHANGED <<given, answer, sources, env, processed, snapshots, loader, calls, up>>

\* Stage 2 of run(): the files _transform wrote before an exception stay
Transform ==
    /\ pc = "transform"
    /\ \E tr \in {_transform(stats, raw_data)} :
          /\ snapshots' = tr.files
          /\ step_log' = step_log \o tr.steps
          /\ IF tr.exc # ""
             THEN RunRaises(tr.stats, tr.exc) /\ processed' = processed
             ELSE /\ stats' = tr.stats
                  /\ processed' = tr.records
                  /\ pc' = "load"
                  /\ outcome' = outcome
    /\ UNCHANGED <<given, answer, sources, env, args, raw_data, loader, calls, up>>

\* What Stage 3 would do did run() not test dry_run: _load is entered
\* whatever the flag says
Load_IgnoresDryRun(oi, oc) ==
    LET configured == calls \o CallThenWait("set_settings", oi, <<>>, 0) IN
    /\ pc = "load"
    /\ IF processed = <<>>
       THEN RunReturns(stats) /\ UNCHANGED <<loader, calls, up>>
       ELSE IF ~env
       THEN RunRaises(stats, "ValueError") /\ UNCHANGED <<loader, calls, up>>
       ELSE IF oi # "ok"
       THEN /\ RunRaises(stats, "Exception")
            /\ loader' = TRUE
            /\ calls' = configured
            /\ up' = up
       ELSE /\ loader' = TRUE
            /\ UploadRecordsBegin(configured, processed, args.clear_index, oc)
            /\ pc' = "uploading"
            /\ UNCHANGED <<stats, outcome>>
    /\ UNCHANGED <<step_log, given, answer, sources, env, args, raw_data, processed, snapshots>>

\* Stage 3 of run() up to the first save of upload_records: the dry run,
\* _load with no records, the loader property (ValueError without
\* credentials), create_index answering oi, the clearing answering oc.
Load(oi, oc) ==
    LET configured == calls \o CallThenWait("set_settings", oi, <<>>, 0) IN
    /\ pc = "load"
    /\ IF args.dry_run
       THEN /\ RunReturns([stats EXCEPT !.uploaded_records = stats.mapped_records])
            /\ UNCHANGED <<loader, calls, up>>
       ELSE IF processed = <<>>
       THEN RunReturns(stats) /\ UNCHANGED <<loader, calls, up>>
       ELSE IF ~env
       THEN RunRaises(stats, "ValueError") /\ UNCHANGED <<loader, calls, up>>
       ELSE IF oi # "ok"
       THEN /\ RunRaises(stats, "Exception")
            /\ loader' = TRUE
            /\ calls' = configured
            /\ up' = up
       ELSE /\ loader' = TRUE
            /\ UploadRecordsBegin(configured, processed, args.clear_index, oc)
            /\ pc' = "uploading"
            /\ UNCHANGED <<stats, outcome>>
    /\ UNCHANGED <<step_log, given, answer, sources, env, args, raw_data, processed, snapshots>>

\* The rest of _load once upload_records has returned, and the end of run()
LoadReturn ==
    LET result == up.result
        warned == IF result.errors > 0
                  THEN <<NatStr(result.errors) \o " records failed to upload">>
                  ELSE <<>>
    IN /\ pc = "uploading"
       /\ up.lpc = "done"
       /\ RunReturns([stats EXCEPT !.uploaded_records = result.uploaded,
                                   !.failed_records = result.errors,
                                   !.warnings = @ \o warned])
       /\ UNCHANGED <<step_log, given, answer, sources, env, args, raw_data, processed, snapshots,
                      loader, calls, up>>

\* A direct call loader.upload_records(processed, clear_existing)
UploadCall(o) ==
    /\ pc = "call"
    /\ UploadRecordsBegin(calls, processed, args.clear_index, o)
    /\ pc' = "called"
    /\ UNCHANGED <<step_log, given, answer, sources, env, args, stats, raw_data, processed, snapshots,
                   loader, outcome>>

\* ... and its return to the caller
UploadReturn ==
    /\ pc = "called"
    /\ up.lpc = "done"
    /\ pc' = "returned"
    /\ UNCHANGED <<step_log, given, answer, sources, env, args, stats, raw_data, processed, snapshots,
                   loader, calls, up, outcome>>

-----------------------------------------------------------------------------
(* The inputs explored, and the specifications.                            *)

\* A line of cpus.csv, and one of gpus.csv
CpuRow(name, socket, tdp_watts) ==
    ("name" :> Str(name)) @@ ("brand" :> Str("AMD")) @@ ("cores" :> Int_(6))
    @@ ("threads" :> Int_(12)) @@ ("socket" :> socket)
    @@ ("tdp_watts" :> tdp_watts) @@ ("memory_type" :> Str("DDR5"))
    @@ ("price_usd" :> Float(199990))
GpuRow(name, length_mm, price_usd) ==
    ("name" :> Str(name)) @@ ("brand" :> Str("NVIDIA")) @@ ("vram" :> Int_(12))
    @@ ("tdp_watts" :> Int_(200)) @@ ("length_mm" :> length_mm)
    @@ ("price_usd" :> price_usd)

\* The lines a file is made of: a complete one, one with an empty required
\* cell, one with a non-finite number (the GPU one under a name that differs
\* from the first line's in case and punctuation only); for CPUs also one
\* with an empty memory_type cell
CpuRows ==
    { CpuRow("R5 7600", Str("AM5"), Int_(65)),
      CpuRow("R7 7700", NaN, Int_(65)),
      CpuRow("R9 7900", Str("AM5"), PosInf),
      [CpuRow("R3 4100", Str("AM4"), Int_(65)) EXCEPT !["memory_type"] = NaN] }
GpuRows ==
    { GpuRow("RTX 4070", Int_(244), Float(599000)),
      GpuRow("RTX 4080", NaN, Float(1199000)),
      GpuRow("rtx-4070", Int_(304), PosInf) }

\* The sequences of at most n elements of S
SeqsUpTo(S, n) == UNION {[1..m -> S] : m \in 0..n}

\* The same file without the column col
WithoutColumn(df, col) ==
    DF(SelectSeq(df.cols, LAMBDA c : c # col),
       [r \in 1..Len(df.rows) |-> [c \in Columns(df) \ {col} |-> df.rows[r][c]]])

\* What data/raw can hold for a type: no file, a file of up to MaxRows
\* lines, a one-line file that lacks the required column col
Files(cols, rows, col) ==
    LET whole == {read_csv(cols, q) : q \in SeqsUpTo(rows, MaxRows)} IN
    {NoFile} \cup whole
    \cup {WithoutColumn(f, col) : f \in {g \in whole : Len(g.rows) = 1}}

\* data/raw: cpus.csv and gpus.csv vary (with the columns of the
\* pipeline's fixtures), the other files are absent
Sources ==
    {[t \in {all_components[n] : n \in 1..Len(all_components)} |->
        CASE t = "CPU" -> cpu [] t = "GPU" -> gpu [] OTHER -> NoFile] :
     cpu \in Files(<<"name", "brand", "cores", "threads", "socket",
                     "tdp_watts", "memory_type", "price_usd">>,
                   CpuRows, "cores"),
     gpu \in Files(<<"name", "brand", "vram", "tdp_watts", "length_mm",
                     "price_usd">>,
                   GpuRows, "vram")}

\* Records for a direct upload_records call: finite values, and a
\* non-finite float at the top level, in a nested dict, in a list, in a
\* dict inside a list, in a list inside a list
SampleRecords ==
    << ("objectID" :> Str("a")) @@ ("price_usd" :> Float(1500)),
       ("objectID" :> Str("b")) @@ ("price_usd" :> NaN),
       ("objectID" :> Str("c")) @@ ("specs" :> Dict(("boost" :> PosInf) @@ ("cores" :> Int_(8)))),
       ("objectID" :> Str("d")) @@ ("scores" :> List(<<Float(2500), NegInf>>)),
       ("objectID" :> Str("e")) @@ ("parts" :> List(<<Dict(("tdp" :> NaN))>>)),
       ("objectID" :> Str("f")) @@ ("grid" :> List(<<List(<<NaN>>)>>)) >>

\* The record lists handed to upload_records: up to MaxRecords
\* consecutive samples, starting anywhere
LoaderInputs ==
    {[j \in 1..n |-> SampleRecords[((k + j) % Len(SampleRecords)) + 1]] :
        n \in 0..MaxRecords, k \in 1..Len(SampleRecords)}

\* Before run() is called: the files are in place, the pipeline is
\* constructed, nothing has been sent
Init ==
    /\ sources \in Sources
    /\ env \in BOOLEAN
    /\ pc = "start"
    /\ args = DefaultArgs
    /\ stats = PipelineStats
    /\ raw_data = <<>>
    /\ processed = <<>>
    /\ snapshots = <<>>
    /\ loader = FALSE
    /\ calls = <<>>
    /\ up = UpIdle
    /\ outcome = NoOutcome
    /\ step_log = <<>>
    /\ given = [fn |-> ""]
    /\ answer = None

Next ==
    \/ \E components \in {<<>>, <<"GPU">>}, clear_index \in BOOLEAN,
          skip_scraping \in BOOLEAN, dry_run \in BOOLEAN,
          scrape \in {"raise", "empty", "some"} :
            Extract(components, clear_index, skip_scraping, dry_run, scrape)
    \/ Transform
    \/ \E oi \in Outcomes, oc \in Outcomes : Load(oi, oc)
    \/ \E o \in Outcomes : SaveAttempt(o)
    \/ LoadReturn

\* One run of the pipeline over every source, argument and service answer.
Spec == Init /\ [][Next]_vars

\* Before upload_records is called on a constructed loader
LoaderInit ==
    /\ sources = [t \in {all_components[n] : n \in 1..Len(all_components)} |-> NoFile]
    /\ env = TRUE
    /\ pc = "call"
    /\ args \in {[DefaultArgs EXCEPT !.clear_index = b] : b \in BOOLEAN}
    /\ stats = PipelineStats
    /\ raw_data = <<>>
    /\ processed \in LoaderInputs
    /\ snapshots = <<>>
    /\ loader = TRUE
    /\ calls = <<>>
    /\ up = UpIdle
    /\ outcome = NoOutcome
    /\ step_log = <<>>
    /\ given = [fn |-> ""]
    /\ answer = None

LoaderNext ==
    \/ \E o \in Outcomes : UploadCall(o)
    \/ \E o \in Outcomes : SaveAttempt(o)
    \/ UploadReturn

\* One direct call of upload_records over every record list and answer.
LoaderSpec == LoaderInit /\ [][LoaderNext]_vars

\* The same call, the interpreter running the loop on: for termination.
LoaderFairSpec == LoaderSpec /\ WF_vars(LoaderNext)

-----------------------------------------------------------------------------
(* The transformers' functions called on their own, as the unit tests do.  *)

\* The calls explored: the function and its arguments
CallInputs ==
    LET \* SchemaMapper._apply_field_mappings: an alias a with a value, its
        \* canonical name with a value, None or NaN, and an unmapped key,
        \* in every key order
        orders(a, c) ==
            {<<a>>, <<c>>, <<a, c>>, <<c, a>>, <<a, c, "brand">>,
             <<c, a, "brand">>, <<"brand", a, c>>, <<"brand", c, a>>,
             <<a, "brand", c>>, <<c, "brand", a>>}
        aliasing ==
            UNION {{[fn |-> "_apply_field_mappings", keys |-> ks,
                     record |-> [k \in {ks[n] : n \in 1..Len(ks)} |->
                                    IF k = FIELD_MAPPINGS[a] THEN own
                                    ELSE IF k = a THEN other ELSE Str("AMD")]] :
                        ks \in orders(a, FIELD_MAPPINGS[a]),
                        own \in {Int_(65), None, NaN},
                        other \in {Int_(95), None}} :
                   a \in DOMAIN FIELD_MAPPINGS}
        \* SchemaMapper.map_record: for every type and every field of its
        \* schema, a record sound in every other field (keys in schema
        \* order) and in that field absent, None, NaN, unparseable, a
        \* number in a string, infinite, an integer; and an unknown type
        good(type) ==
            CASE type = "str" -> Str("b650")
              [] type = "int" -> Int_(4)
              [] type = "float" -> Float(4500)
              [] type = "bool" -> Bool(TRUE)
              [] OTHER -> List(<<Str("DDR5")>>)
        varied(t, m, v) ==
            LET schema == SCHEMAS(t)
                keys == SelectSeq([n \in 1..Len(schema) |-> schema[n][1]],
                                  LAMBDA f : f # schema[m][1] \/ v # <<"absent">>)
            IN [fn |-> "map_record", component_type |-> t, keys |-> keys,
                record |-> [f \in {keys[n] : n \in 1..Len(keys)} |->
                              IF f = schema[m][1] THEN v
                              ELSE good(schema[CHOOSE n \in 1..Len(schema) :
                                                  schema[n][1] = f][2])]]
        mapping ==
            UNION {{varied(t, m, v) :
                        m \in 1..Len(SCHEMAS(t)),
                        v \in {<<"absent">>, None, NaN, Str("abc"), Str("65W"),
                               PosInf, Int_(7)}} :
                   t \in {all_components[n] : n \in 1..Len(all_components)}}
            \cup {[fn |-> "map_record", component_type |-> "Monitor",
                   keys |-> <<"objectID">>,
                   record |-> ("objectID" :> Str("monitor-1"))]}
        \* SchemaMapper.validate_record on what map_record returns: the
        \* records above, and those with an empty string in one field
        audited ==
            {[x EXCEPT !.fn = "validate_record"] :
                x \in mapping \cup
                      UNION {{varied(t, m, Str("")) : m \in 1..Len(SCHEMAS(t))} :
                             t \in {all_components[n] : n \in 1..Len(all_components)}}}
        \* CompatibilityTagger.generate_tags: component records of every
        \* type, built from <<key, value>> pairs (a pair with value
        \* <<"absent">> is left out), with values that make several rules
        \* produce one tag, and GPUs of several brands and models
        component(q) ==
            LET kept == SelectSeq(q, LAMBDA kv : kv[2] # <<"absent">>) IN
            [fn |-> "generate_tags",
             component |-> [k \in {kept[n][1] : n \in 1..Len(kept)} |->
                              kept[CHOOSE n \in 1..Len(kept) : kept[n][1] = k][2]]]
        absent == <<"absent">>
        ddr5x2 == List(<<Str("DDR5"), Str("DDR5")>>)
        gpus ==
            {component(<< <<"component_type", Str("GPU")>>, <<"brand", b>>,
                          <<"model", m>>, <<"tdp_watts", sz[1]>>,
                          <<"vram_gb", sz[2]>>, <<"length_mm", sz[3]>>,
                          <<"memory_type", mt>>, <<"performance_tier", pt>> >>) :
                b \in {absent, None, Str("NVIDIA"), Str("AMD"), Str("ASUS")},
                m \in {absent, Str("RTX 4090"), Str("GeForce GTX 1660"),
                       Str("Radeon RX 7800 XT"), Str("ROG Strix rtx 4090"),
                       Str("Arc A770")},
                sz \in {<<Int_(450), Int_(24), Int_(336)>>,
                        <<Int_(150), Int_(8), Int_(240)>>,
                        <<absent, absent, absent>>},
                mt \in {absent, Str("GDDR6X"), Str("nvidia")},
                pt \in {absent, Str("enthusiast")}}
        cpus ==
            {component(<< <<"component_type", Str("CPU")>>, <<"socket", so>>,
                          <<"memory_type", mt>>, <<"tdp_watts", Int_(65)>>,
                          <<"cores", co>>, <<"integrated_graphics", ig>>,
                          <<"performance_tier", pt>> >>) :
                so \in {absent, Str("AM5"), Str("budget")},
                mt \in {ddr5x2, List(<<Str("DDR5"), Str("DDR4")>>), Str("DDR5"),
                        Str("am5"), absent},
                co \in {absent, Int_(4), Int_(16)},
                ig \in {absent, Bool(TRUE)},
                pt \in {absent, Str("budget"), Str("igpu")}}
        motherboards ==
            {component(<< <<"component_type", Str("Motherboard")>>, <<"socket", so>>,
                          <<"memory_type", mt>>, <<"form_factor", ff>>,
                          <<"chipset", ch>>, <<"wifi", wf>>,
                          <<"m2_slots", m2>>, <<"memory_slots", ms>> >>) :
                so \in {Str("AM5"), Str("wifi")},
                mt \in {ddr5x2, Str("DDR4")},
                ff \in {absent, Str("Micro ATX")},
                ch \in {Str("B650"), Str("am5")},
                wf \in {Bool(TRUE), Bool(FALSE)},
                m2 \in {absent, Int_(4)},
                ms \in {Int_(2), Int_(4)}}
        rams ==
            {component(<< <<"component_type", Str("RAM")>>, <<"memory_type", mt>>,
                          <<"speed_mhz", sp>>, <<"capacity_gb", cap>>,
                          <<"modules", md>>, <<"rgb", rgb>>, <<"cas_latency", cas>> >>) :
                mt \in {absent, Str("DDR5"), Str("DDR4"), Str("rgb")},
                sp \in {absent, Int_(6400), Int_(3200)},
                cap \in {absent, Int_(16)},
                md \in {Int_(1), Int_(2), Int_(4)},
                rgb \in {absent, Bool(TRUE)},
                cas \in {absent, Int_(16), Int_(30)}}
        psus ==
            {component(<< <<"component_type", Str("PSU")>>, <<"wattage", w>>,
                          <<"efficiency_rating", eff>>, <<"modular", md>>,
                          <<"form_factor", ff>> >>) :
                w \in {absent, Int_(750)},
                eff \in {Str(""), Str("80 Plus Gold"), Str("80+ Titanium"), Str("Plus")},
                md \in {absent, Str("Full"), Str("Semi-modular"), Str("No")},
                ff \in {absent, Str("ATX"), Str("80plus-gold")}}
        cases ==
            {component(<< <<"component_type", Str("Case")>>,
                          <<"form_factor_support", ffs>>, <<"max_gpu_length_mm", gl>>,
                          <<"max_cooler_height_mm", ch>>, <<"radiator_support", rs>>,
                          <<"drive_bays_35", bays>> >>) :
                ffs \in {absent, List(<<>>), Str("Mini ITX"),
                         List(<<Str("ATX"), Str("atx")>>)},
                gl \in {absent, Int_(330)},
                ch \in {absent, Int_(160)},
                rs \in {absent, List(<<Str("360"), Str("360")>>), List(<<Str("240MM")>>)},
                bays \in {absent, None, Int_(4)}}
        coolers ==
            {component(<< <<"component_type", Str("Cooler")>>,
                          <<"socket_support", ss>>, <<"cooler_type", ct>>,
                          <<"height_mm", h>>, <<"radiator_size_mm", rad>>,
                          <<"tdp_rating", tdp>>, <<"rgb", rgb>> >>) :
                ss \in {List(<<Str("AM5"), Str("am5")>>), Str("AM4")},
                ct \in {absent, Str("AIO Liquid"), Str("Air")},
                h \in {absent, Int_(160)},
                rad \in {absent, Int_(360)},
                tdp \in {absent, Int_(250), Int_(100)},
                rgb \in {absent, Bool(TRUE)}}
        others ==
            {component(<< <<"component_type", ct>>, <<"socket", Str("AM5")>> >>) :
                ct \in {absent, Str("Monitor"), Str("gpu")}}
        tagging == gpus \cup cpus \cup motherboards \cup rams \cup psus
                   \cup cases \cup coolers \cup others
        \* CompatibilityTagger._get_tdp_category: every integer TDP
        categories == {[fn |-> "_get_tdp_category", tdp |-> Int_(t)] : t \in 0..MaxTdp}
        \* The six category methods: every integer from Margin below 0 to
        \* Margin above the lower end of the table's open range
        upto(table) == (0 - Margin)..(table[Len(table)][2] + Margin)
        buckets ==
            {[fn |-> "_get_tdp_category", tdp |-> Int_(v)] : v \in upto(TDP_CATEGORIES)}
            \cup {[fn |-> "_get_vram_tier", value |-> Int_(v)] : v \in upto(VRAM_TIERS)}
            \cup {[fn |-> "_get_gpu_length_category", value |-> Int_(v)] :
                      v \in upto(GPU_LENGTH_CATEGORIES)}
            \cup {[fn |-> "_get_cooler_height_category", value |-> Int_(v)] :
                      v \in upto(COOLER_HEIGHT_CATEGORIES)}
            \cup {[fn |-> "_get_case_gpu_clearance", value |-> Int_(v)] :
                      v \in upto(CASE_GPU_CLEARANCE)}
            \cup {[fn |-> "_get_psu_wattage_tier", value |-> Int_(v)] :
                      v \in upto(PSU_WATTAGE_TIERS)}
        \* DataNormalizer.normalize_memory_type: the names of the table in
        \* upper, lower and mixed case, the DDR names also with a speed,
        \* a name the table lacks, and no value
        memory_types ==
            {[fn |-> "normalize_memory_type", value |-> v] :
                v \in {None, NaN, Str("SDRAM")}
                  \cup UNION {{Str(n \o tail), Str(Lower(n \o tail)),
                               Str(Chr(n, 1) \o Lower(SubSeq(n, 2, Len(n))) \o tail)} :
                        n \in {MEMORY_TYPE_MAPPINGS[k][2] :
                                  k \in 1..Len(MEMORY_TYPE_MAPPINGS)},
                        tail \in {"", "-6000", " 3200"}}}
        \* DataNormalizer.normalize_dataframe: a batch of two rows that
        \* holds a subset of the known columns, each with values its
        \* normalizer parses: every subset of the columns that other
        \* columns' steps read, joined with none, one or all of the rest
        known ==
            <<"socket", "memory_type", "form_factor", "tdp", "tdp_watts",
              "max_tdp_watts", "price", "price_usd", "msrp", "base_clock",
              "boost_clock", "base_clock_ghz", "boost_clock_ghz", "name",
              "model", "brand", "component_type">>
        coupled == {"tdp", "tdp_watts", "price", "price_usd", "name", "model",
                    "brand", "component_type"}
        free == {known[n] : n \in 1..Len(known)} \ coupled
        raw == [socket |-> <<Str("am5"), Str("Socket AM4")>>,
                memory_type |-> <<Str("ddr5-6000"), Str("DDR4")>>,
                form_factor |-> <<Str("micro atx"), Str("ATX")>>,
                tdp |-> <<Str("95W"), Int_(120)>>,
                tdp_watts |-> <<Str("65 W"), Int_(105)>>,
                max_tdp_watts |-> <<Int_(88), Str("142W")>>,
                price |-> <<Str("$10.50"), Float(20000)>>,
                price_usd |-> <<Str("$499.99"), Float(299000)>>,
                msrp |-> <<Str("399"), Int_(450)>>,
                base_clock |-> <<Int_(3600), Str("3.4 GHz")>>,
                boost_clock |-> <<Str("5.1 GHz"), Int_(5000)>>,
                base_clock_ghz |-> <<Float(3500), Str("4.2")>>,
                boost_clock_ghz |-> <<Str("4500 MHz"), Float(4700)>>,
                name |-> <<Str("Ryzen 5 7600"), Str("Ryzen 7 7700")>>,
                model |-> <<Str("7600X"), Str("7700X")>>,
                brand |-> <<Str("AMD"), Str("AMD")>>,
                component_type |-> <<Str("CPU"), Str("CPU")>>]
        frames ==
            {[fn |-> "normalize_dataframe",
              df |-> DF(SelectSeq(known, LAMBDA c : c \in cs),
                        [r \in 1..2 |-> [c \in cs |-> raw[c][r]]])] :
                cs \in {a \cup b : a \in SUBSET coupled,
                                    b \in {{}, free} \cup {{c} : c \in free}}
                          \ {{}}}
        \* DataNormalizer.derive_performance_tier on its own: prices and
        \* TDPs at, below and above every tier's limits, and each absent
        tiers ==
            {[fn |-> "derive_performance_tier", component_type |-> t,
              price |-> p, tdp |-> w] :
                t \in {"CPU", "GPU", "Motherboard", "RAM", "cpu"},
                p \in {None, Float(149990), Int_(150), Float(150010), Int_(250),
                       Int_(300), Int_(350), Int_(500), Float(550000), Int_(551),
                       Int_(900), Int_(901)},
                w \in {None, Int_(65), Int_(66), Int_(105), Int_(150), Int_(170),
                       Int_(171), Int_(250), Int_(350), Int_(351)}}
        \* normalize_dataframe for a batch of two records whose first
        \* record may lack its price or its TDP (an empty cell of a numeric
        \* column is NaN)
        tiered ==
            {[fn |-> "normalize_dataframe",
              df |-> DF(<<"component_type", "price_usd", "tdp_watts">>,
                        << [component_type |-> Str(t), price_usd |-> p,
                            tdp_watts |-> w],
                           [component_type |-> Str(t),
                            price_usd |-> Float(299000),
                            tdp_watts |-> Float(105000)] >>)] :
                t \in {"CPU", "GPU", "Motherboard", "RAM"},
                p \in {NaN, Float(100000), Float(600000)},
                w \in {NaN, Float(65000), Float(200000)}}
        \* ETLPipeline._transform for a motherboards.csv of two lines,
        \* without the column memory_slots or with a number or an empty
        \* cell in it, as extract_motherboards returns it
        board(model, slots) ==
            ("name" :> Str(model)) @@ ("brand" :> Str("ASUS"))
            @@ ("socket" :> Str("AM5")) @@ ("form_factor" :> Str("ATX"))
            @@ ("memory_type" :> Str("DDR5")) @@ ("price_usd" :> Float(199990))
            @@ (IF slots = absent THEN <<>> ELSE ("memory_slots" :> slots))
        board_cols == <<"name", "brand", "socket", "form_factor", "memory_type",
                        "price_usd">>
        boards ==
            {[fn |-> "_transform",
              data |-> << <<"Motherboard",
                           WithType(read_csv(cols, <<board("B650-A", q[1]),
                                                     board("B650-B", q[2])>>),
                                    "Motherboard")>> >>] :
                cols \in {board_cols}, q \in {<<absent, absent>>}}
            \cup
            {[fn |-> "_transform",
              data |-> << <<"Motherboard",
                           WithType(read_csv(Append(board_cols, "memory_slots"),
                                             <<board("B650-A", q[1]),
                                               board("B650-B", q[2])>>),
                                    "Motherboard")>> >>] :
                q \in {Int_(2), Int_(4), Int_(8), NaN} \X {Int_(2), Int_(4), NaN}}
    IN aliasing \cup mapping \cup tagging \cup categories \cup memory_types
       \cup frames \cup tiers \cup tiered \cup buckets \cup boards \cup audited

\* Before the call
CallInit ==
    /\ given \in CallInputs
    /\ answer = None
    /\ pc = "given"
    /\ sources = [t \in {all_components[n] : n \in 1..Len(all_components)} |-> NoFile]
    /\ env = FALSE
    /\ args = DefaultArgs
    /\ stats = PipelineStats
    /\ raw_data = <<>>
    /\ processed = <<>>
    /\ snapshots = <<>>
    /\ loader = FALSE
    /\ calls = <<>>
    /\ up = UpIdle
    /\ outcome = NoOutcome
    /\ step_log = <<>>

\* The call of fn returns v
Returns(fn, v) ==
    /\ pc = "given"
    /\ given.fn = fn
    /\ answer' = v
    /\ pc' = "answered"
    /\ UNCHANGED <<step_log, given, sources, env, args, stats, raw_data, processed,
                   snapshots, loader, calls, up, outcome>>

CallNext ==
    \/ Returns("_apply_field_mappings",
               Dict(_apply_field_mappings(given.keys, given.record)))
    \/ Returns("map_record",
               map_record(given.keys, given.record, given.component_type))
    \/ Returns("generate_tags", generate_tags(given.component))
    \/ Returns("_get_tdp_category",
               Bucket(TDP_CATEGORIES, given.tdp, "extreme-tdp"))
    \/ Returns("_get_vram_tier", Bucket(VRAM_TIERS, given.value, "vram-32gb-plus"))
    \/ Returns("_get_gpu_length_category",
               Bucket(GPU_LENGTH_CATEGORIES, given.value, "extra-long-gpu"))
    \/ Returns("_get_cooler_height_category",
               Bucket(COOLER_HEIGHT_CATEGORIES, given.value, "tall-tower"))
    \/ Returns("_get_case_gpu_clearance",
               Bucket(CASE_GPU_CLEARANCE, given.value, "full-clearance"))
    \/ Returns("_get_psu_wattage_tier",
               Bucket(PSU_WATTAGE_TIERS, given.value, "psu-1200w-plus"))
    \/ Returns("normalize_memory_type", normalize_memory_type(given.value))
    \/ Returns("normalize_dataframe", normalize_dataframe(given.df))
    \/ Returns("_transform", _transform(PipelineStats, given.data))
    \/ Returns("validate_record",
               LET m == map_record(given.keys, given.record, given.component_type)
               IN [mapped |-> m,
                   errors |-> IF Kind(m) = "dict"
                              THEN validate_record(m[2], given.component_type)
                              ELSE <<>>])
    \/ Returns("derive_performance_tier",
               Str(derive_performance_tier(Str(given.component_type),
                                           given.price, given.tdp)))

\* One call of one function over every input explored.
CallSpec == CallInit /\ [][CallNext]_vars

-----------------------------------------------------------------------------
(* The log of client calls, read batch by batch.                           *)

\* The places in the log of the save attempts on batch bn
AttemptsOn(bn) ==
    {k \in 1..Len(calls) : calls[k].op = "save_objects" /\ calls[k].batch_num = bn}

\* The attempt at place k succeeded: the save was accepted and the wait
\* for its task returned
AttemptOk(k) ==
    /\ calls[k].ok
    /\ k < Len(calls)
    /\ calls[k + 1].op = "wait_for_task"
    /\ calls[k + 1].ok

\* ceil(n / size): the least q with q * size >= n
CeilDiv(n, size) ==
    CHOOSE q \in 0..n : q * size >= n /\ \A p \in 0..(q - 1) : p * size < n

\* The records of batch bn by position: those at (bn - 1) * BATCH_SIZE + 1
\* up to bn * BATCH_SIZE, as far as there are records
BatchOf(records, bn) ==
    LET first == (bn - 1) * BATCH_SIZE
        size == IF first + BATCH_SIZE <= Len(records)
                THEN BATCH_SIZE ELSE Len(records) - first
    IN [j \in 1..size |-> records[first + j]]

\* upload_records is through with batch bn
BatchOver(bn) ==
    \/ up.lpc = "done"
    \/ up.lpc = "saving" /\ BatchNum(up.i) > bn

\* The batches given up: MAX_RETRIES attempts, none of which succeeded
GivenUp ==
    {bn \in 1..CeilDiv(Len(processed), BATCH_SIZE) :
        /\ BatchOver(bn)
        /\ \A k \in AttemptsOn(bn) : ~AttemptOk(k)}

\* The positions of the records of the batches given up
LostRecords ==
    {j \in 1..Len(processed) : ((j - 1) \div BATCH_SIZE) + 1 \in GivenUp}

-----------------------------------------------------------------------------
(* C3: the retry loop.                                                     *)

\* The attempts on every batch, at every moment of the call: at most
\* MAX_RETRIES, each with the whole batch, none after one that succeeded;
\* a batch left without a success had MAX_RETRIES attempts and was left by
\* a raise, which upload_records counts as errors
C3_Attempts ==
    /\ \A bn \in 1..CeilDiv(Len(processed), BATCH_SIZE) :
          LET att == AttemptsOn(bn) IN
          /\ Cardinality(att) <= MAX_RETRIES
          /\ \A k \in att :
                /\ calls[k].objects = SanitizeBatch(BatchOf(processed, bn))
                /\ AttemptOk(k) => \A m \in att : m <= k
          /\ BatchOver(bn) =>
                \/ \E k \in att : AttemptOk(k)
                \/ Cardinality(att) = MAX_RETRIES
    /\ up.lpc \in {"saving", "done"} =>
          /\ up.total_errors = Cardinality(LostRecords)
          /\ up.total_uploaded + up.total_errors =
                Cardinality({j \in 1..Len(processed) :
                                BatchOver(((j - 1) \div BATCH_SIZE) + 1)})

\* C3: for each batch _upload_batch_with_retry makes at most MAX_RETRIES = 3
\* save attempts, each re-sending the whole batch, stops at the first one
\* that succeeds, and after the third consecutive failure gives up by
\* raising; the call always terminates.
C3_BoundedRetry == [](C3_Attempts) /\ <>(pc = "returned")

\* A call that has returned after one batch was given up on its third
\* failure and another succeeded on a retry
C3_Witness ==
    /\ pc = "returned"
    /\ \E bn \in GivenUp : Cardinality(AttemptsOn(bn)) = MAX_RETRIES
    /\ \E bn \in 1..CeilDiv(Len(processed), BATCH_SIZE) :
          /\ Cardinality(AttemptsOn(bn)) = 2
          /\ \E k \in AttemptsOn(bn) : AttemptOk(k)

-----------------------------------------------------------------------------
(* C5: the batches.                                                        *)

\* C5: upload_records splits n records into ceil(n / BATCH_SIZE) consecutive
\* batches of at most BATCH_SIZE records, in input order, each record in
\* exactly one batch; when every save succeeds the service receives exactly
\* one save call per batch (2500 records with batch size 1000 give 3).
C5_Batches ==
    /\ Cardinality(Range(2500, 1000)) = 3
    /\ up.lpc = "done" =>
          LET n == Len(processed)
              saves == SelectSeq(calls, LAMBDA c : c.op = "save_objects")
          IN
          /\ {saves[k].batch_num : k \in 1..Len(saves)} = 1..CeilDiv(n, BATCH_SIZE)
          /\ \A k \in 1..Len(saves) :
                /\ Len(saves[k].objects) \in 1..BATCH_SIZE
                /\ saves[k].objects = SanitizeBatch(BatchOf(processed, saves[k].batch_num))
                /\ k > 1 => saves[k].batch_num \in
                                {saves[k - 1].batch_num, saves[k - 1].batch_num + 1}
          /\ (\A k \in 1..Len(calls) : calls[k].ok) =>
                /\ Len(saves) = CeilDiv(n, BATCH_SIZE)
                /\ \A k \in 1..Len(saves) : saves[k].batch_num = k

\* Five records, every save accepted: three save calls, as 2500 records
\* in batches of 1000
C5_Witness ==
    /\ pc = "returned"
    /\ Len(processed) = 2 * BATCH_SIZE + 1
    /\ \A k \in 1..Len(calls) : calls[k].ok
    /\ Cardinality({k \in 1..Len(calls) : calls[k].op = "save_objects"}) = 3

-----------------------------------------------------------------------------
(* C6: what the save payloads hold.                                        *)

\* value with every NaN and infinity in it, at any depth, replaced by None
RECURSIVE Nulled(_)
Nulled(v) ==
    IF IsNonFinite(v) THEN None
    ELSE IF Kind(v) = "list" THEN List([j \in 1..Len(v[2]) |-> Nulled(v[2][j])])
    ELSE IF Kind(v) = "dict" THEN Dict([key \in DOMAIN v[2] |-> Nulled(v[2][key])])
    ELSE v

\* C6: in the payload of every save call, first attempt or retry, no record
\* holds a NaN or an infinity in a top-level field, in a nested mapping or
\* as a list element: each has been replaced by null, every other value is
\* unchanged.
C6_PayloadsFinite ==
    \A k \in 1..Len(calls) :
        calls[k].op = "save_objects" =>
            LET batch == BatchOf(processed, calls[k].batch_num) IN
            calls[k].objects = [j \in 1..Len(batch) |-> Nulled(Dict(batch[j]))[2]]

-----------------------------------------------------------------------------
(* C1: what reaches the Upload service has passed map_record.              *)

\* The fields the schema of component_type marks required
RequiredFields(component_type) ==
    LET schema == SCHEMAS(component_type) IN
    {schema[n][1] : n \in {m \in 1..Len(schema) : schema[m][3]}}

\* The values of field in the records of seq picked by Keep, in order
FieldOf(seq, field, Keep(_)) ==
    LET picked == SelectSeq(seq, Keep) IN
    [j \in 1..Len(picked) |-> picked[j][field]]

\* The records of one type after Stage 2, against what map_record returns
\* for each tagged row of that type: the rows mapped to null are neither
\* among the records for upload nor in the snapshot, the others are, in order
C1_OnlyMapped(comp_type, tagged) ==
    LET Mapped(row) == Kind(map_record(tagged.cols, row, comp_type)) = "dict"
        OfType(rec) == rec["component_type"] = Str(comp_type)
        Each(rec) == TRUE
        files == {m \in 1..Len(snapshots) :
                    snapshots[m][1] = Lower(comp_type) \o "_processed.json"}
        kept == FieldOf(tagged.rows, "model", Mapped)
    IN /\ FieldOf(processed, "model", OfType) = kept
       /\ IF kept = <<>> THEN files = {}
          ELSE /\ Cardinality(files) = 1
               /\ \A m \in files : FieldOf(snapshots[m][2], "model", Each) = kept

\* C1, with the infinities it leaves out: every record passed to
\* upload_records was returned non-null by map_record and holds a value other
\* than None and NaN for every field its schema marks required; in a save
\* payload such a field is null only where that value was an infinity; a
\* row for which map_record returns null is neither uploaded nor written to
\* the snapshot of its type.
C1_RequiredFieldsCarried ==
    /\ \A j \in 1..Len(processed) :
          \A f \in RequiredFields(PyStr(processed[j]["component_type"])) :
              /\ f \in DOMAIN processed[j]
              /\ Kind(processed[j][f]) \notin {"none", "nan"}
    /\ \A k \in 1..Len(calls) :
          calls[k].op = "save_objects" =>
              LET batch == BatchOf(processed, calls[k].batch_num) IN
              /\ Len(calls[k].objects) = Len(batch)
              /\ \A j \in 1..Len(batch) :
                    \A f \in RequiredFields(PyStr(batch[j]["component_type"])) :
                        /\ f \in DOMAIN calls[k].objects[j]
                        /\ Kind(calls[k].objects[j][f]) # "nan"
                        /\ Kind(calls[k].objects[j][f]) = "none" =>
                              Kind(batch[j][f]) \in {"inf", "ninf"}
    /\ pc = "load" =>
          \A n \in 1..Len(raw_data) :
              \A tagged \in {tag_dataframe(normalize_dataframe(raw_data[n][2]))} :
                  C1_OnlyMapped(raw_data[n][1], tagged)

\* A save of a batch that holds a GPU with an infinite price, after a run
\* in which a row with an empty required cell was dropped
C1_Witness ==
    /\ \E k \in 1..Len(calls) :
          /\ calls[k].op = "save_objects"
          /\ \E j \in 1..Len(calls[k].objects) :
                Kind(calls[k].objects[j]["price_usd"]) = "none"
    /\ \E n \in 1..Len(raw_data) : Len(raw_data[n][2].rows) = 2
    /\ Len(processed) = 2
    /\ stats.normalized_records = 4

\* C1: every record handed to the Upload service was returned non-null by
\* map_record and so carries a value for every field its component type's
\* schema marks required.
C1_PayloadsComplete ==
    \A k \in 1..Len(calls) :
        calls[k].op = "save_objects" =>
            \A j \in 1..Len(calls[k].objects) :
                LET sent == calls[k].objects[j] IN
                \A f \in RequiredFields(PyStr(sent["component_type"])) :
                    f \in DOMAIN sent /\ Kind(sent[f]) \notin {"none", "nan"}

-----------------------------------------------------------------------------
(* C2: the objectIDs of one run.                                           *)

\* C2: for any set of input records (no line twice in a file), all records
\* passed to upload_records in one run have pairwise distinct objectIDs.
C2_DistinctObjectIDs ==
    (\A t \in DOMAIN sources :
        \A a, b \in 1..Len(sources[t].rows) :
            a # b => sources[t].rows[a] # sources[t].rows[b])
    => \A i, j \in 1..Len(processed) :
            i # j => processed[i]["objectID"] # processed[j]["objectID"]

-----------------------------------------------------------------------------
(* C4: a batch given up does not end the run.                              *)

\* C4: when a batch still fails after its retries are exhausted,
\* upload_records counts all its records as errors, goes on to the remaining
\* batches and returns normally; run() then sets failed_records to that
\* count, appends a warning, leaves the error list empty and returns the
\* statistics without raising.
C4_FailedBatchCounted ==
    up.lpc = "done" =>
        LET n == Len(processed)
            lost == Cardinality(LostRecords)
        IN
        /\ \A bn \in 1..CeilDiv(n, BATCH_SIZE) : AttemptsOn(bn) # {}
        /\ \A bn \in GivenUp : Cardinality(AttemptsOn(bn)) = MAX_RETRIES
        /\ up.result = [uploaded |-> n - lost, errors |-> lost]
        /\ pc \in {"uploading", "done"}
        /\ pc = "done" =>
              /\ outcome.raised = ""
              /\ outcome.returned = <<stats>>
              /\ stats.failed_records = lost
              /\ stats.uploaded_records = n - lost
              /\ stats.errors = <<>>
              /\ IF lost = 0
                 THEN \A w \in 1..Len(stats.warnings) :
                        ~Contains(stats.warnings[w], "records failed to upload")
                 ELSE /\ stats.warnings # <<>>
                      /\ stats.warnings[Len(stats.warnings)] =
                            NatStr(lost) \o " records failed to upload"

\* A run that returned after giving up its first batch and uploading the
\* second
C4_Witness ==
    /\ pc = "done"
    /\ up.lpc = "done"
    /\ GivenUp = {1}
    /\ \E k \in AttemptsOn(2) : AttemptOk(k)
    /\ stats.failed_records = BATCH_SIZE

-----------------------------------------------------------------------------
(* C7: the dry run.                                                        *)

\* C7: in a run with dry_run = true no operation of the Upload service is
\* ever invoked (the client is not constructed, the index is not configured
\* or cleared, nothing is saved), and on normal return uploaded_records
\* equals mapped_records and failed_records is 0.
C7_DryRunSendsNothing ==
    args.dry_run =>
        /\ calls = <<>>
        /\ ~loader
        /\ up = UpIdle
        /\ pc \in {"transform", "load", "done"}
        /\ (pc = "done" /\ outcome.raised = "") =>
              /\ outcome.returned = <<stats>>
              /\ stats.uploaded_records = stats.mapped_records
              /\ stats.failed_records = 0

\* A dry run that returned with records mapped, the credentials being set
C7_Witness ==
    /\ args.dry_run
    /\ env
    /\ pc = "done"
    /\ outcome.returned # <<>>
    /\ stats.mapped_records > 1
    /\ stats.uploaded_records = stats.mapped_records

-----------------------------------------------------------------------------
(* C8: a failure of Stage 1 or Stage 2.                                    *)

\* The step taken when a stage raised e: the run is over with e raised to
\* the caller, the message recorded once, the end time set, and the Upload
\* service untouched
C8_Aborted(e) ==
    /\ pc' = "done"
    /\ outcome'.raised = e
    /\ outcome'.returned = <<>>
    /\ stats'.errors = <<e>>
    /\ stats'.end_time # 0
    /\ calls' = <<>>
    /\ ~loader'
    /\ up' = UpIdle

\* C8: if the Extract or the Transform stage raises, run() appends the
\* error's message to the error list exactly once, records the end time,
\* never enters the Load stage (no Upload-service call is made) and
\* re-raises the same exception to the caller.
C8_StageFailureAborts ==
    [][ /\ pc # "done"
        /\ pc = "start" =>
              \A ex \in {extract_all(sources).exc} : ex # "" => C8_Aborted(ex)
        /\ pc = "transform" =>
              \A ex \in {_transform(stats, raw_data).exc} : ex # "" => C8_Aborted(ex)
      ]_vars

\* A run ended by the OverflowError that int() of an infinite TDP raises
\* in Stage 2, after Stage 1 extracted both types
C8_Witness ==
    /\ pc = "done"
    /\ outcome.raised = "OverflowError"
    /\ Len(raw_data) = 2
    /\ stats.errors = <<"OverflowError">>
    /\ env

-----------------------------------------------------------------------------
(* C9: the summary.                                                        *)

\* C9: every run, including one in which a stage fails, produces a
\* statistics summary, logged and delivered to the caller, with the counts
\* and the warning and error lists.
C9_SummaryAlways ==
    pc = "done" =>
        /\ outcome.logged = <<stats>>
        /\ outcome.returned = <<stats>>

-----------------------------------------------------------------------------
(* C10: a source without its required columns.                             *)

\* C10: when the source of one component type lacks its required columns,
\* only the extraction of that type fails: the other types are still
\* extracted, and the run is not aborted. Here for CPU and GPU, the other
\* of the two being a sound file among the types the run is to process.
C10_OtherTypesSurvive ==
    \A lacking \in {"CPU", "GPU"} :
        LET other == IF lacking = "CPU" THEN "GPU" ELSE "CPU"
            Required(t) == IF t = "CPU" THEN REQUIRED_CPU_COLUMNS
                           ELSE REQUIRED_GPU_COLUMNS
        IN
        ( /\ pc # "start"
          /\ sources[lacking].exc = ""
          /\ ~validate_schema(sources[lacking], Required(lacking))
          /\ sources[other].exc = ""
          /\ validate_schema(sources[other], Required(other))
          /\ sources[other].rows # <<>>
          /\ args.components = <<>> \/ args.components = <<other>> )
        => /\ outcome.raised # "ValueError"
           /\ \E n \in 1..Len(raw_data) : raw_data[n][1] = other

-----------------------------------------------------------------------------
(* C11: aliases and canonical names in one record.                         *)

\* C11: for every record that has a non-null value under a canonical field
\* name and also a value under one of that field's aliases, the record
\* produced by _apply_field_mappings keeps the canonical field's own value,
\* whatever the order of the keys in the record.
C11_CanonicalKept ==
    (pc = "answered" /\ given.fn = "_apply_field_mappings") =>
        \A a \in DOMAIN FIELD_MAPPINGS \cap DOMAIN given.record :
            LET c == FIELD_MAPPINGS[a] IN
            (c \in DOMAIN given.record /\ ~IsNA(given.record[c]))
                => answer[2][c] = given.record[c]

-----------------------------------------------------------------------------
(* C12: when map_record returns null.                                      *)

\* C12: map_record(record, type) returns null exactly when the type has no
\* schema, or a schema field that is required and has no default is missing
\* or NaN after aliasing, or the value of a required field fails type
\* coercion; in every other case it returns a mapping, from which an optional
\* field that is missing (without default) or fails coercion is only omitted.
C12_NullExactly ==
    (pc = "answered" /\ given.fn = "map_record") =>
        LET schema == SCHEMAS(given.component_type)
            rec == _apply_field_mappings(given.keys, given.record)
            Missing(n) == IsNA(Get(rec, schema[n][1], None))
            Fails(n) == /\ ~Missing(n)
                        /\ Kind(_coerce_type(rec[schema[n][1]], schema[n][2])) = "raise"
            null == \/ schema = <<>>
                    \/ \E n \in 1..Len(schema) :
                          /\ schema[n][3]
                          /\ (Missing(n) /\ Len(schema[n]) < 4) \/ Fails(n)
        IN IF null THEN Kind(answer) = "none"
           ELSE /\ Kind(answer) = "dict"
                /\ \A n \in 1..Len(schema) :
                      ~schema[n][3] =>
                          (schema[n][1] \in DOMAIN answer[2]
                             <=> /\ ~Fails(n)
                                 /\ ~Missing(n) \/ Len(schema[n]) = 4)

-----------------------------------------------------------------------------
(* C13: the defaults of the schemas.                                       *)

\* C13: for every schema field that declares a default, a record in which
\* that field is missing, None or NaN is mapped with the field set to the
\* declared default, whether or not the field is required; a value that is
\* present is never replaced by the default: the field holds the coerced
\* value, or is left out when the coercion fails.
C13_DefaultsApplied ==
    (pc = "answered" /\ given.fn = "map_record" /\ Kind(answer) = "dict") =>
        LET schema == SCHEMAS(given.component_type)
            rec == _apply_field_mappings(given.keys, given.record)
        IN \A n \in {m \in 1..Len(schema) : Len(schema[m]) = 4} :
              LET field_name == schema[n][1]
                  own == Get(rec, field_name, None)
                  coerced == _coerce_type(own, schema[n][2])
              IN IF IsNA(own)
                 THEN /\ field_name \in DOMAIN answer[2]
                      /\ answer[2][field_name] = schema[n][4]
                 ELSE IF Kind(coerced) = "raise"
                 THEN field_name \notin DOMAIN answer[2]
                 ELSE /\ field_name \in DOMAIN answer[2]
                      /\ answer[2][field_name] = coerced

\* A Motherboard record without wifi, sound otherwise, is mapped with
\* wifi = false and keeps its own m2_slots (4, where the default is 1)
C13_Witness ==
    /\ pc = "answered"
    /\ given.fn = "map_record"
    /\ given.component_type = "Motherboard"
    /\ "wifi" \notin DOMAIN given.record
    /\ Kind(answer) = "dict"
    /\ answer[2]["wifi"] = Bool(FALSE)
    /\ answer[2]["m2_slots"] = Int_(4)

-----------------------------------------------------------------------------
(* C14: no tag twice.                                                      *)

\* C14: for any component record, the list returned by generate_tags
\* contains no tag twice, also when several rules or repeated input values
\* produce the same tag.
C14_NoTagTwice ==
    (pc = "answered" /\ given.fn = "generate_tags" /\ answer.exc = "") =>
        \A i, j \in 1..Len(answer.tags) :
            answer.tags[i] = answer.tags[j] => i = j

\* A CPU whose memory_type is [DDR5, DDR5] and whose socket and
\* performance tier both read "budget": ddr5 and budget are produced twice
\* each and returned once
C14_Witness ==
    /\ pc = "answered"
    /\ given.fn = "generate_tags"
    /\ Get(given.component, "component_type", None) = Str("CPU")
    /\ Get(given.component, "memory_type", None) = List(<<Str("DDR5"), Str("DDR5")>>)
    /\ Get(given.component, "socket", None) = Str("budget")
    /\ Get(given.component, "performance_tier", None) = Str("budget")
    /\ answer.exc = ""
    /\ \E i, j \in 1..Len(answer.tags) :
          answer.tags[i] = "ddr5" /\ answer.tags[j] = "budget"

-----------------------------------------------------------------------------
(* C15: the tags of a power-hungry GPU.                                    *)

\* C15: generate_tags for a GPU record with tdp_watts = 450, vram_gb = 24
\* and length_mm = 336 returns tags that include extreme-tdp,
\* extreme-power-gpu, high-power-gpu, vram-24gb and extra-long-gpu.
C15_PowerWarningTags ==
    ( /\ pc = "answered"
      /\ given.fn = "generate_tags"
      /\ Get(given.component, "component_type", None) = Str("GPU")
      /\ Get(given.component, "tdp_watts", None) = Int_(450)
      /\ Get(given.component, "vram_gb", None) = Int_(24)
      /\ Get(given.component, "length_mm", None) = Int_(336)
      /\ answer.exc = "" )
    => {"extreme-tdp", "extreme-power-gpu", "high-power-gpu", "vram-24gb",
        "extra-long-gpu"}
           \subseteq {answer.tags[j] : j \in 1..Len(answer.tags)}

-----------------------------------------------------------------------------
(* C16: the TDP categories.                                                *)

-----------------------------------------------------------------------------
(* C17: the memory type names.                                             *)

\* C17: normalize_memory_type maps each of the names DDR3, DDR4, DDR5,
\* GDDR5, GDDR5X, GDDR6, GDDR6X, HBM2, HBM2e and HBM3, in any letter case
\* and with an optional speed suffix on the DDR names, to that same
\* canonical name and to no other.
C17_MemoryTypeNames ==
    (pc = "answered" /\ given.fn = "normalize_memory_type"
        /\ Kind(given.value) = "str") =>
        \A n \in {"DDR3", "DDR4", "DDR5", "GDDR5", "GDDR5X", "GDDR6", "GDDR6X",
                  "HBM2", "HBM2e", "HBM3"} :
            LET text == Lower(given.value[2])
                spelt == \/ text = Lower(n)
                         \/ /\ n \in {"DDR3", "DDR4", "DDR5"}
                            /\ \E tail \in {"-6000", " 3200"} : text = Lower(n) \o tail
            IN spelt => answer = Str(n)

-----------------------------------------------------------------------------
(* C18: normalize_dataframe over the columns that are present.             *)

\* Two cells hold the same value: equal, both missing, or equal numbers.
SameCell(a, b) ==
    \/ a = b
    \/ IsNA(a) /\ IsNA(b)
    \/ /\ Kind(a) \in {"int", "float"} /\ Kind(b) \in {"int", "float"}
       /\ FloatOf(a) = FloatOf(b)

\* C18: for every subset of the known columns that is present in a batch,
\* normalize_dataframe completes without raising, normalizes each present
\* column from that column's own values and leaves absent columns absent
\* (here: the columns it normalizes).
C18_PresentColumnsOnly ==
    (pc = "answered" /\ given.fn = "normalize_dataframe") =>
        /\ answer.exc = ""
        /\ \A n \in 1..Len(NormalizedColumns) :
              LET col == NormalizedColumns[n][1] IN
              IF col \in Columns(given.df)
              THEN /\ col \in Columns(answer)
                   /\ \A r \in 1..Len(given.df.rows) :
                         SameCell(answer.rows[r][col],
                                  NormalizeBy(NormalizedColumns[n][2],
                                              given.df.rows[r][col]))
              ELSE col \notin Columns(answer)

-----------------------------------------------------------------------------
(* C19: the performance tier.                                              *)

\* The tier the rule names: for CPU, GPU and Motherboard the first tier
\* whose maximum price and maximum TDP are both not exceeded, a missing
\* price or TDP passing every test; mid-range for every other type.
TierByRule(component_type, price, tdp) ==
    IF component_type \notin {Str("CPU"), Str("GPU"), Str("Motherboard")}
    THEN "mid-range"
    ELSE LET thresholds == TIER_THRESHOLDS[component_type[2]]
             fits == {n \in 1..Len(thresholds) :
                        /\ (IsNA(price) \/ NumLE(price, thresholds[n][2]))
                        /\ (IsNA(tdp) \/ NumLE(tdp, thresholds[n][3]))}
         IN thresholds[CHOOSE n \in fits : \A m \in fits : n <= m][1]

\* C19: derive_performance_tier assigns the tier of the rule, called on
\* its own and called by normalize_dataframe for each record of a batch
\* (the record's price is its price_usd or else its price, its TDP its
\* tdp_watts or else its tdp, as normalized).
C19_TierByRule ==
    pc = "answered" =>
        /\ given.fn = "derive_performance_tier" =>
              answer = Str(TierByRule(Str(given.component_type), given.price,
                                      given.tdp))
        /\ (given.fn = "normalize_dataframe" /\ answer.exc = "") =>
              \A r \in 1..Len(answer.rows) :
                  LET row == answer.rows[r]
                      first(a, b) == IF IsNA(Get(row, a, None))
                                     THEN Get(row, b, None)
                                     ELSE Get(row, a, None)
                  IN row["performance_tier"] =
                         Str(TierByRule(Get(row, "component_type", Str("")),
                                        first("price_usd", "price"),
                                        first("tdp_watts", "tdp")))

-----------------------------------------------------------------------------
(* C20: the tags a GPU gets from its model name.                           *)

\* C20: a GPU whose model contains "rtx" (any letter case) is tagged
\* nvidia, rtx and ray-tracing; one whose model contains "gtx" is tagged
\* nvidia and gtx; one whose model contains "rx" is tagged amd and rdna.
C20_ModelNameTags ==
    ( /\ pc = "answered"
      /\ given.fn = "generate_tags"
      /\ Get(given.component, "component_type", None) = Str("GPU")
      /\ Kind(Get(given.component, "model", None)) = "str"
      /\ answer.exc = "" )
    => LET model == Lower(given.component["model"][2])
           tags == {answer.tags[j] : j \in 1..Len(answer.tags)}
       IN /\ Contains(model, "rtx") => {"nvidia", "rtx", "ray-tracing"} \subseteq tags
          /\ Contains(model, "gtx") => {"nvidia", "gtx"} \subseteq tags
          /\ Contains(model, "rx") => {"amd", "rdna"} \subseteq tags

-----------------------------------------------------------------------------
(* C21: a failure of the GPU web scrape.                                   *)

\* The scrape of this run raised: _extract appended its warning
ScrapeFailed ==
    \E n \in 1..Len(stats.warnings) : stats.warnings[n] = "GPU scraping failed"

\* What _extract returns for the same files and components without scraping
WithoutScraping ==
    _extract([PipelineStats EXCEPT !.start_time = 1], sources, args.components,
             TRUE, "empty")

\* C21: when the GPU scrape raises during Extract the run goes on: at the
\* end of Extract there is that one warning and no error, and the data and
\* the extracted counts are those of the CSV files alone; at the end of
\* Transform the records, the files written and the counts are those of
\* a run without scraping, the warning aside.
C21_ScrapeFailureIsWarning ==
    ScrapeFailed =>
        /\ pc = "transform" =>
              /\ stats.warnings = <<"GPU scraping failed">>
              /\ stats.errors = <<>>
              /\ outcome.raised = ""
              /\ raw_data = WithoutScraping.data
              /\ stats.extracted_records = WithoutScraping.stats.extracted_records
        /\ pc = "load" =>
              LET tr == _transform(WithoutScraping.stats, WithoutScraping.data) IN
              /\ tr.exc = ""
              /\ processed = tr.records
              /\ snapshots = tr.files
              /\ stats.errors = <<>>
              /\ stats = [tr.stats EXCEPT !.warnings =
                            <<"GPU scraping failed">> \o tr.stats.warnings]

\* The scrape raised with CSV data extracted, and Transform has mapped it
C21_Witness ==
    /\ ScrapeFailed
    /\ pc = "load"
    /\ processed # <<>>
    /\ ~args.skip_scraping

-----------------------------------------------------------------------------
(* C22: the order of the steps of a run.                                   *)

\* The steps begun so far that are of the kinds given
StepsOf(kinds) == SelectSeq(step_log, LAMBDA e : e[1] \in kinds)

\* C22 as stated: the steps of different component types never interleave:
\* between two of the extract, normalize, tag and map steps of one type
\* there is no such step of another type.
C22_TypesNeverInterleave ==
    LET own == StepsOf({"extract", "normalize", "tag", "map"}) IN
    \A i, j, k \in 1..Len(own) :
        (i < j /\ j < k /\ own[i][2] = own[k][2]) => own[j][2] = own[i][2]

\* C22, amended: every extraction step of the run comes before every
\* transform step; the normalize, tag and map steps of different types
\* never interleave, and those of one type come in that order.
C22_StagesThenTypes ==
    LET transform == StepsOf({"normalize", "tag", "map"})
        rank == [normalize |-> 1, tag |-> 2, map |-> 3]
    IN /\ \A i, j \in 1..Len(step_log) :
             (step_log[i][1] \in {"extract", "scrape"}
                 /\ step_log[j][1] \in {"normalize", "tag", "map"}) => i < j
       /\ \A i, j, k \in 1..Len(transform) :
             (i < j /\ j < k /\ transform[i][2] = transform[k][2])
                 => transform[j][2] = transform[i][2]
       /\ \A i, j \in 1..Len(transform) :
             (i < j /\ transform[i][2] = transform[j][2])
                 => rank[transform[i][1]] < rank[transform[j][1]]
       /\ \A j \in 1..Len(transform) :
             rank[transform[j][1]] > 1 =>
                 /\ j > 1
                 /\ transform[j - 1][2] = transform[j][2]
                 /\ rank[transform[j - 1][1]] = rank[transform[j][1]] - 1

\* Two component types went through all of their transform steps
C22_Witness ==
    /\ pc = "load"
    /\ <<"map", "CPU">> \in {step_log[n] : n \in 1..Len(step_log)}
    /\ <<"map", "GPU">> \in {step_log[n] : n \in 1..Len(step_log)}

-----------------------------------------------------------------------------
(* C23: the fallback of the bucketing tables.                              *)

\* The table a category method reads
TableOf(fn) ==
    CASE fn = "_get_tdp_category" -> TDP_CATEGORIES
      [] fn = "_get_vram_tier" -> VRAM_TIERS
      [] fn = "_get_gpu_length_category" -> GPU_LENGTH_CATEGORIES
      [] fn = "_get_cooler_height_category" -> COOLER_HEIGHT_CATEGORIES
      [] fn = "_get_case_gpu_clearance" -> CASE_GPU_CLEARANCE
      [] fn = "_get_psu_wattage_tier" -> PSU_WATTAGE_TIERS

CategoryMethods ==
    {"_get_tdp_category", "_get_vram_tier", "_get_gpu_length_category",
     "_get_cooler_height_category", "_get_case_gpu_clearance",
     "_get_psu_wattage_tier"}

\* C23: for each of the six tables and every integer input, the topmost
\* tag is given to the values above the table's last finite bound; every
\* other input lies in exactly one declared range and gets the tag of
\* that range.
C23_FallbackOnlyAbove ==
    (pc = "answered" /\ given.fn \in CategoryMethods) =>
        LET table == TableOf(given.fn)
            v == IF given.fn = "_get_tdp_category" THEN given.tdp[2]
                 ELSE given.value[2]
            finite == {n \in 1..Len(table) : table[n][3] # -1}
            last == CHOOSE b \in {table[n][3] : n \in finite} :
                        \A n \in finite : table[n][3] <= b
            holding == {n \in finite : table[n][2] <= v /\ v <= table[n][3]}
        IN IF v > last
           THEN answer = table[Len(table)][1]
           ELSE /\ Cardinality(holding) = 1
                /\ \A n \in holding : answer = table[n][1]

-----------------------------------------------------------------------------
(* C24: the clearing of the index.                                         *)

\* The places of the calls of op in the log of client calls
CallsOf(op) == {k \in 1..Len(calls) : calls[k].op = op}

\* C24: once upload_records is called with clear_existing and a
\* non-empty list, the index has been cleared exactly once, before every
\* save; when the call has returned every batch has been sent, also when
\* the clearing failed; with an empty list nothing is cleared or saved.
C24_ClearOnceBeforeSaves ==
    pc \in {"called", "returned"} =>
        /\ processed = <<>> =>
              CallsOf("clear_objects") = {} /\ CallsOf("save_objects") = {}
        /\ (processed # <<>> /\ args.clear_index) =>
              /\ Cardinality(CallsOf("clear_objects")) = 1
              /\ \A c \in CallsOf("clear_objects") :
                    \A k \in CallsOf("save_objects") : c < k
        /\ (processed # <<>> /\ pc = "returned") =>
              \A bn \in 1..CeilDiv(Len(processed), BATCH_SIZE) :
                  AttemptsOn(bn) # {}

\* The clearing failed and the call returned with a batch uploaded
C24_Witness ==
    /\ pc = "returned"
    /\ args.clear_index
    /\ \E c \in CallsOf("clear_objects") : ~calls[c].ok
    /\ \E k \in AttemptsOn(1) : AttemptOk(k)

-----------------------------------------------------------------------------
(* C25: the counts upload_records returns.                                 *)

\* The number of records in the batches of the set given
RecordsIn(batches) ==
    Cardinality({j \in 1..Len(processed) :
                    ((j - 1) \div BATCH_SIZE) + 1 \in batches})

\* C25: whatever the service answers, upload_records returns counts with
\* uploaded + errors = the number of records; every batch is counted once
\* and whole: errors is the size of the batches that ended with a raise,
\* uploaded the size of the others.
C25_CountsAddUp ==
    LET all == 1..CeilDiv(Len(processed), BATCH_SIZE)
        over == {bn \in all : BatchOver(bn)}
    IN /\ up.lpc \in {"saving", "done"} =>
             /\ up.total_errors = RecordsIn(GivenUp)
             /\ up.total_uploaded = RecordsIn(over \ GivenUp)
       /\ up.lpc = "done" =>
             /\ over = all
             /\ up.result.uploaded = up.total_uploaded
             /\ up.result.errors = up.total_errors
             /\ up.result.uploaded + up.result.errors = Len(processed)

\* The call returned with one batch counted as uploaded and two as errors
C25_Witness ==
    /\ pc = "returned"
    /\ Cardinality(GivenUp) = 2
    /\ up.result.uploaded > 0

-----------------------------------------------------------------------------
(* C26: what a batch counted as errors means.                              *)

\* C26: a batch counted as errors was never accepted by the service: none
\* of its save calls returned, whatever became of the wait after it.
C26_ErrorsWereNeverAccepted ==
    \A bn \in GivenUp : \A k \in AttemptsOn(bn) : ~calls[k].ok

-----------------------------------------------------------------------------
(* C27: the counts of a run.                                               *)

\* self.stats.total_extracted: the sum of extracted_records
RECURSIVE SumCounts(_)
SumCounts(q) == IF q = <<>> THEN 0 ELSE q[1][2] + SumCounts(Tail(q))

-----------------------------------------------------------------------------
(* C28: the VRAM tag of the GPUs handed to Load.                           *)

\* The tags of a mapped record, as a set
TagsOf(record) ==
    LET tags == Get(record, "compatibility_tags", List(<<>>)) IN
    {tags[2][j] : j \in 1..Len(tags[2])}

\* C28: every GPU record handed to Load whose mapped vram_gb is an
\* integer v > 0 carries the tag of the VRAM tier that holds v.
C28_VramTagCarried ==
    \A r \in 1..Len(processed) :
        LET record == processed[r]
            vram == Get(record, "vram_gb", None)
        IN (Get(record, "component_type", None) = Str("GPU")
               /\ Kind(vram) = "int" /\ vram[2] > 0) =>
              \E n \in 1..Len(VRAM_TIERS) :
                  /\ VRAM_TIERS[n][2] <= vram[2]
                  /\ (VRAM_TIERS[n][3] = -1 \/ vram[2] <= VRAM_TIERS[n][3])
                  /\ Str(VRAM_TIERS[n][1]) \in TagsOf(record)

-----------------------------------------------------------------------------
(* C29: the DIMM tag of the motherboards handed to Load.                   *)

\* C29: every Motherboard record _transform returns has the tag 4-dimm
\* exactly when its mapped memory_slots is at least 4, and the tag 2-dimm
\* otherwise.
C29_DimmTagBySlots ==
    (pc = "answered" /\ given.fn = "_transform" /\ answer.exc = "") =>
        \A r \in 1..Len(answer.records) :
            LET record == answer.records[r]
                slots == Get(record, "memory_slots", None)
                four == Kind(slots) = "int" /\ slots[2] >= 4
            IN Get(record, "component_type", None) = Str("Motherboard") =>
                  /\ Str("4-dimm") \in TagsOf(record) <=> four
                  /\ Str("2-dimm") \in TagsOf(record) <=> ~four

-----------------------------------------------------------------------------
(* C30: what map_record accepts, validate_record accepts.                  *)

\* C30: when map_record(record, t) returns a mapping m, validate_record(m,
\* t) returns no error.
C30_MappedIsValid ==
    (pc = "answered" /\ given.fn = "validate_record"
        /\ Kind(answer.mapped) = "dict") => answer.errors = <<>>

=============================================================================
